---------------------------- MODULE Spec2Model ----------------------------
(***************************************************************************)
(* A model of mygrep's regex pipeline: postfixer (validation, tokenising   *)
(* with implicit concatenation, shunting yard), Thompson construction of   *)
(* the NFA, subset construction of the DFA and the line scanner.           *)
(*                                                                         *)
(* Characters are Unicode code points.  A Rust Option is a sequence of     *)
(* length 0 (None) or 1 (Some), a Result is a record with an ok flag.      *)
(* Vec / VecDeque are sequences; Rust indices are 0-based and are kept     *)
(* 0-based as values, so nodes[i] of the source is nodes[i + 1] here.      *)
(***************************************************************************)
EXTENDS Integers, Sequences, FiniteSets, TLC

(***************************************************************************)
(* Bounds of the model.                                                    *)
(***************************************************************************)
\* longest pattern over the postfixer alphabet (escapes, all operators)
MaxEscLen == 4
\* longest pattern over the operator alphabet (no escapes)
MaxOpLen == 5
\* longest query handed to search
MaxQueryLen == 5
\* longest contents (raw text, newlines included) handed to search
MaxContentsLen == 3
MaxBuildLen == 5
MaxStringLen == 4
MaxNodes == 3
MaxEdges == 3
MaxStarLen == 3

(***************************************************************************)
(* Rust values.                                                            *)
(***************************************************************************)
None == <<>>
Some(x) == <<x>>

Error(msg, args) == [msg |-> msg, args |-> args, panic |-> FALSE]
NoError == Error("", <<>>)
Ok(v) == [ok |-> TRUE, val |-> v, err |-> NoError]
Err(msg, args) == [ok |-> FALSE, val |-> <<>>, err |-> Error(msg, args)]

Last(s) == s[Len(s)]
Front(s) == SubSeq(s, 1, Len(s) - 1)

RECURSIVE SeqsUpTo(_, _)
\* all sequences over S of length at most n
SeqsUpTo(S, n) ==
    IF n = 0 THEN {<<>>}
    ELSE LET shorter == SeqsUpTo(S, n - 1)
         IN shorter \cup {Append(s, c) : s \in {t \in shorter : Len(t) = n - 1}, c \in S}

(***************************************************************************)
(* regex.rs: the symbol model.                                             *)
(***************************************************************************)
Optional == [t |-> "Optional", c |-> 0]
Plus == [t |-> "Plus", c |-> 0]
Star == [t |-> "Star", c |-> 0]
Concat == [t |-> "Concat", c |-> 0]
Alternation == [t |-> "Alternation", c |-> 0]
Open == [t |-> "Open", c |-> 0]
Close == [t |-> "Close", c |-> 0]
Char(c) == [t |-> "Char", c |-> c]

\* the characters regex.rs and postfixer.rs name: ? + * | ( ) \ t b n r f
\* and the control characters the escapes stand for
QuestionMark == 63
PlusSign == 43
Asterisk == 42
Pipe == 124
OpenParen == 40
CloseParen == 41
Backslash == 92
LetterT == 116
LetterB == 98
LetterN == 110
LetterR == 114
LetterF == 102
Tab == 9
Backspace == 8
Newline == 10
CarriageReturn == 13
EscapedF == 10

from_char(c) ==
    CASE c = QuestionMark -> Optional
      [] c = PlusSign -> Plus
      [] c = Asterisk -> Star
      [] c = Pipe -> Alternation
      [] c = OpenParen -> Open
      [] c = CloseParen -> Close
      [] OTHER -> Char(c)

get_escaped(c) ==
    CASE c = QuestionMark -> Ok(Char(QuestionMark))
      [] c = PlusSign -> Ok(Char(PlusSign))
      [] c = Asterisk -> Ok(Char(Asterisk))
      [] c = Pipe -> Ok(Char(Pipe))
      [] c = OpenParen -> Ok(Char(OpenParen))
      [] c = CloseParen -> Ok(Char(CloseParen))
      [] c = LetterT -> Ok(Char(Tab))
      [] c = LetterB -> Ok(Char(Backspace))
      [] c = LetterN -> Ok(Char(Newline))
      [] c = LetterR -> Ok(Char(CarriageReturn))
      [] c = LetterF -> Ok(Char(EscapedF))
      [] c = Backslash -> Ok(Char(Backslash))
      [] OTHER -> Err("Error - Invalid escaped character", <<c>>)

get_precedence(symbol) ==
    CASE symbol = Optional -> 3
      [] symbol = Plus -> 3
      [] symbol = Star -> 3
      [] symbol = Concat -> 2
      [] symbol = Alternation -> 1
      [] OTHER -> 0

get_type(symbol) ==
    CASE symbol = Optional -> "Unary"
      [] symbol = Plus -> "Unary"
      [] symbol = Star -> "Unary"
      [] symbol = Concat -> "Binary"
      [] symbol = Alternation -> "Binary"
      [] OTHER -> "None"

is_unary_operator(c) == c = QuestionMark \/ c = PlusSign \/ c = Asterisk

is_binary_operator(c) == c = Pipe

is_operator(c) == is_unary_operator(c) \/ is_binary_operator(c)

(***************************************************************************)
(* postfixer.rs: validation of the raw pattern.                            *)
(***************************************************************************)
starts_with_operator(regex) == Len(regex) > 0 /\ is_operator(regex[1])

ends_with_binary_operator(regex) == Len(regex) > 0 /\ is_binary_operator(Last(regex))

check_start_and_end_chars(regex) ==
    IF starts_with_operator(regex)
    THEN Err("Error - Illegal operator usage at start of string", <<>>)
    ELSE IF ends_with_binary_operator(regex)
    THEN Err("Error - Illegal operator usage at end of string", <<>>)
    ELSE Ok(regex)

IllegalPairMutant(current, next) ==
    is_binary_operator(current) /\ is_operator(next)

is_illegal_pair(current, next) ==
    \/ is_binary_operator(current) /\ is_operator(next)
    \/ is_unary_operator(current) /\ is_unary_operator(next)

RECURSIVE illegal_sequence_loop(_, _, _)
\* the while loop of check_for_illegal_operator_sequences: pos is the
\* iterator's position (1-based), i the counter the error reports
illegal_sequence_loop(regex, pos, i) ==
    IF pos > Len(regex) THEN Ok(regex)
    ELSE IF pos = Len(regex) THEN illegal_sequence_loop(regex, pos + 1, i)
    ELSE IF is_illegal_pair(regex[pos], regex[pos + 1])
    THEN Err("Error - Illegal operator sequence", <<regex[pos], regex[pos + 1], i>>)
    ELSE illegal_sequence_loop(regex, pos + 1, i + 1)

IllegalSequencesMutant(regex) == illegal_sequence_loop(regex, 1, 1)

check_for_illegal_operator_sequences(regex) == illegal_sequence_loop(regex, 1, 0)

(***************************************************************************)
(* postfixer.rs: format, tokenising with implicit concatenation.           *)
(***************************************************************************)
can_concat_occur_after_current(escape_flag, current) ==
    escape_flag \/ (current # OpenParen /\ ~is_binary_operator(current))

CanConcatBeforeMutant(next) == ~is_operator(next)

can_concat_occur_before_next(next) == next # CloseParen /\ ~is_operator(next)

StartsEscapeMutant(current, escape_flag) == current = Backslash

\* the test that opens an escape: an unescaped backslash
starts_escape(current, escape_flag) == current = Backslash /\ ~escape_flag

RECURSIVE format_loop(_, _, _, _)
\* the while loop of format: pos is the iterator's position (1-based)
format_loop(regex, pos, escape_flag, formatted) ==
    IF pos > Len(regex) THEN Ok(formatted)
    ELSE
      LET current == regex[pos]
          at_end == pos = Len(regex)
      IN
        IF starts_escape(current, escape_flag)
        THEN IF at_end
             THEN Err("Error - Pattern may not end with a trailing backslash", <<>>)
             ELSE format_loop(regex, pos + 1, TRUE, formatted)
        ELSE
          LET escaped_symbol == get_escaped(current)
              pushed == Append(formatted,
                               IF escape_flag THEN escaped_symbol.val
                               ELSE from_char(current))
          IN
            IF escape_flag /\ ~escaped_symbol.ok
            THEN [escaped_symbol EXCEPT !.val = <<>>]
            ELSE IF at_end
            THEN format_loop(regex, pos + 1, escape_flag, pushed)
            ELSE
              LET next == regex[pos + 1]
              IN format_loop(regex, pos + 1, FALSE,
                     IF /\ can_concat_occur_after_current(escape_flag, current)
                        /\ can_concat_occur_before_next(next)
                     THEN Append(pushed, Concat)
                     ELSE pushed)

format(regex) == format_loop(regex, 1, FALSE, <<>>)

(***************************************************************************)
(* postfixer.rs: convert, the shunting yard.  The loop state is the pair   *)
(* (output_queue, operator_stack); the top of the stack is its last        *)
(* element.                                                                *)
(***************************************************************************)
Yard(output_queue, operator_stack) ==
    [output_queue |-> output_queue, operator_stack |-> operator_stack]

RECURSIVE pop_until_open(_)
\* the while !found_corresponding_bracket loop and the pop after it
pop_until_open(y) ==
    IF y.operator_stack = <<>> THEN Err("Error - Unbalanced brackets", <<>>)
    ELSE IF Last(y.operator_stack) # Open
    THEN pop_until_open(Yard(Append(y.output_queue, Last(y.operator_stack)),
                             Front(y.operator_stack)))
    ELSE Ok(Yard(y.output_queue, Front(y.operator_stack)))

PrecedenceYieldsMutant(symbol, top) == get_precedence(symbol) < get_precedence(top)

\* the precedence test of the binary-operator loop
precedence_yields(symbol, top) == get_precedence(symbol) <= get_precedence(top)

RECURSIVE pop_while_precedence(_, _)
\* the while loop that pops operators of no lower precedence
pop_while_precedence(symbol, y) ==
    IF /\ y.operator_stack # <<>>
       /\ Last(y.operator_stack) # Open
       /\ precedence_yields(symbol, Last(y.operator_stack))
    THEN pop_while_precedence(symbol,
             Yard(Append(y.output_queue, Last(y.operator_stack)),
                  Front(y.operator_stack)))
    ELSE y

RECURSIVE DrainStackMutant(_)
DrainStackMutant(y) ==
    IF y.operator_stack = <<>> THEN Ok(y.output_queue)
    ELSE DrainStackMutant(Yard(Append(y.output_queue, Last(y.operator_stack)),
                               Front(y.operator_stack)))

RECURSIVE drain_stack(_)
\* the final while loop of convert
drain_stack(y) ==
    IF y.operator_stack = <<>> THEN Ok(y.output_queue)
    ELSE IF Last(y.operator_stack) = Open
    THEN Err("Error - Unbalanced brackets", <<>>)
    ELSE drain_stack(Yard(Append(y.output_queue, Last(y.operator_stack)),
                          Front(y.operator_stack)))

RECURSIVE convert_loop(_, _, _)
\* the for loop of convert over the formatted symbols
convert_loop(formatted, pos, y) ==
    IF pos > Len(formatted) THEN drain_stack(y)
    ELSE
      LET symbol == formatted[pos]
      IN
        IF symbol = Open
        THEN convert_loop(formatted, pos + 1,
                          Yard(y.output_queue, Append(y.operator_stack, symbol)))
        ELSE IF symbol = Close
        THEN LET popped == pop_until_open(y)
             IN IF popped.ok THEN convert_loop(formatted, pos + 1, popped.val)
                ELSE popped
        ELSE IF get_type(symbol) # "None"
        THEN LET z == IF get_type(symbol) = "Binary"
                      THEN pop_while_precedence(symbol, y)
                      ELSE y
             IN convert_loop(formatted, pos + 1,
                             Yard(z.output_queue, Append(z.operator_stack, symbol)))
        ELSE convert_loop(formatted, pos + 1,
                          Yard(Append(y.output_queue, symbol), y.operator_stack))

convert(formatted) == convert_loop(formatted, 1, Yard(<<>>, <<>>))

\* transform: the four stages, the first error ending it
transform(regex) ==
    LET checked == check_start_and_end_chars(regex)
    IN IF ~checked.ok THEN checked
       ELSE LET legal == check_for_illegal_operator_sequences(checked.val)
            IN IF ~legal.ok THEN legal
               ELSE LET formatted == format(legal.val)
                    IN IF ~formatted.ok THEN formatted
                       ELSE convert(formatted.val)

(***************************************************************************)
(* graph.rs: nodes and edges in two vectors, each node heading the linked  *)
(* list of its outgoing edges.                                             *)
(***************************************************************************)
\* a panic: the call does not return
Panic(msg) == [ok |-> FALSE, val |-> <<>>, err |-> [Error(msg, <<>>) EXCEPT !.panic = TRUE]]
IsPanic(r) == ~r.ok /\ r.err.panic

\* Result::unwrap where the model follows no panic: an Err here is an evaluation error
unwrap(r) == CASE r.ok -> r.val

Node(first_outgoing_edge, data) ==
    [first_outgoing_edge |-> first_outgoing_edge, data |-> data]
Edge(target, next_outgoing_edge, data) ==
    [target |-> target, next_outgoing_edge |-> next_outgoing_edge, data |-> data]

new_graph == [nodes |-> <<>>, edges |-> <<>>]

AddNodeMutant(g, data) ==
    [graph |-> [g EXCEPT !.nodes = Append(@, Node(IF g.nodes = <<>> THEN None
                                                  ELSE Last(g.nodes).first_outgoing_edge,
                                                  data))],
     index |-> Len(g.nodes)]

\* the graph with the node appended, and the index returned
add_node(g, data) ==
    [graph |-> [g EXCEPT !.nodes = Append(@, Node(None, data))],
     index |-> Len(g.nodes)]

AddEdgeMutant(g, source, target, data) ==
    [nodes |-> [g.nodes EXCEPT ![source + 1].first_outgoing_edge = Some(Len(g.edges))],
     edges |-> Append(g.edges, Edge(target, None, data))]

add_edge(g, source, target, data) ==
    LET edge_index == Len(g.edges)
    IN [nodes |-> [g.nodes EXCEPT ![source + 1].first_outgoing_edge = Some(edge_index)],
        edges |-> Append(g.edges,
                         Edge(target, g.nodes[source + 1].first_outgoing_edge, data))]

\* nodes.len() - 1 is a usize: on a graph without nodes the subtraction
\* overflows (a panic in a debug build; in a release build the check passes
\* and the indexing that follows panics)
check_node_index(g, index) ==
    IF Len(g.nodes) = 0 THEN Panic("attempt to subtract with overflow")
    ELSE IF index > Len(g.nodes) - 1
    THEN Err("Error - Invalid source node index", <<index, Len(g.nodes) - 1>>)
    ELSE Ok(index)

check_edge_index(g, index) ==
    IF Len(g.edges) = 0 THEN Panic("attempt to subtract with overflow")
    ELSE IF index > Len(g.edges) - 1
    THEN Err("Error - Invalid edge index", <<index, Len(g.edges) - 1>>)
    ELSE Ok(index)

RECURSIVE edge_chain(_, _)
\* the edges linked from e on, e first
edge_chain(g, e) ==
    IF e = None THEN <<>>
    ELSE <<e[1]>> \o edge_chain(g, g.edges[e[1] + 1].next_outgoing_edge)

outgoing_edges(g, source) ==
    LET checked == check_node_index(g, source)
    IN IF ~checked.ok THEN checked
       ELSE Ok(edge_chain(g, g.nodes[source + 1].first_outgoing_edge))

traverse(g, edge) ==
    LET checked == check_edge_index(g, edge)
    IN IF ~checked.ok THEN checked
       ELSE Ok(g.edges[edge + 1].target)

get_node_data(g, index) == g.nodes[index + 1].data
get_edge_data(g, index) == g.edges[index + 1].data

(***************************************************************************)
(* automata.rs: node and edge payloads, fragments.  An edge label is an    *)
(* Option: None for an empty transition, Some(c) for the character c.      *)
(***************************************************************************)
AutomataState(accepting) == [accepting |-> accepting]
is_accepting(state) == state.accepting
MarkAsAcceptingMutant(state) == state

mark_as_accepting(state) == [state EXCEPT !.accepting = TRUE]

AutomataLabel(label) == label

AutomataComponent(start_state, accept_state) ==
    [start_state |-> start_state, accept_state |-> accept_state]

(***************************************************************************)
(* nfa.rs: Thompson construction.  A compile step takes the graph and the  *)
(* fragment stack and returns both with the new fragment, or panics when   *)
(* it pops an empty stack.                                                 *)
(***************************************************************************)
Compiled(nfa, component_stack, component) ==
    Ok([nfa |-> nfa, component_stack |-> component_stack, component |-> component])

RECURSIVE add_edges(_, _)
\* add_edge for each <<source, target, label>> in turn
add_edges(g, es) ==
    IF es = <<>> THEN g
    ELSE add_edges(add_edge(g, es[1][1], es[1][2], AutomataLabel(es[1][3])), Tail(es))

\* the two add_node calls every fragment but a concatenation starts with
new_start_and_accept(nfa) ==
    LET s == add_node(nfa, AutomataState(FALSE))
        a == add_node(s.graph, AutomataState(FALSE))
    IN [graph |-> a.graph, start |-> s.index, accept |-> a.index]

compile_character(nfa, component_stack, c) ==
    LET n == new_start_and_accept(nfa)
    IN Compiled(add_edges(n.graph, <<<<n.start, n.accept, Some(c)>>>>),
                component_stack, AutomataComponent(n.start, n.accept))

CompileOptionalMutant(nfa, component_stack) ==
    IF component_stack = <<>> THEN Panic("called Option::unwrap() on a None value")
    ELSE
      LET top == Last(component_stack)
      IN Compiled(add_edges(nfa, << <<top.start_state, top.accept_state, None>> >>),
                  Front(component_stack), top)

compile_optional(nfa, component_stack) ==
    IF component_stack = <<>> THEN Panic("called Option::unwrap() on a None value")
    ELSE
      LET top == Last(component_stack)
          n == new_start_and_accept(nfa)
      IN Compiled(add_edges(n.graph, << <<n.start, top.start_state, None>>,
                                        <<top.accept_state, n.accept, None>>,
                                        <<n.start, n.accept, None>> >>),
                  Front(component_stack), AutomataComponent(n.start, n.accept))

CompilePlusMutant(nfa, component_stack) == compile_optional(nfa, component_stack)

compile_plus(nfa, component_stack) ==
    IF component_stack = <<>> THEN Panic("called Option::unwrap() on a None value")
    ELSE
      LET top == Last(component_stack)
          n == new_start_and_accept(nfa)
      IN Compiled(add_edges(n.graph, << <<n.start, top.start_state, None>>,
                                        <<top.accept_state, n.accept, None>>,
                                        <<top.accept_state, top.start_state, None>> >>),
                  Front(component_stack), AutomataComponent(n.start, n.accept))

compile_star(nfa, component_stack) ==
    IF component_stack = <<>> THEN Panic("called Option::unwrap() on a None value")
    ELSE
      LET top == Last(component_stack)
          n == new_start_and_accept(nfa)
      IN Compiled(add_edges(n.graph, << <<n.start, top.start_state, None>>,
                                        <<top.accept_state, n.accept, None>>,
                                        <<top.accept_state, top.start_state, None>>,
                                        <<n.start, n.accept, None>> >>),
                  Front(component_stack), AutomataComponent(n.start, n.accept))

CompileConcatMutant(nfa, component_stack) ==
    IF Len(component_stack) < 2 THEN Panic("called Option::unwrap() on a None value")
    ELSE Compiled(nfa, Front(Front(component_stack)),
                  AutomataComponent(Last(Front(component_stack)).start_state,
                                    Last(component_stack).accept_state))

compile_concat(nfa, component_stack) ==
    IF Len(component_stack) < 2 THEN Panic("called Option::unwrap() on a None value")
    ELSE
      LET right == Last(component_stack)
          left == Last(Front(component_stack))
      IN Compiled(add_edges(nfa, << <<left.accept_state, right.start_state, None>> >>),
                  Front(Front(component_stack)),
                  AutomataComponent(left.start_state, right.accept_state))

compile_alternation(nfa, component_stack) ==
    IF Len(component_stack) < 2 THEN Panic("called Option::unwrap() on a None value")
    ELSE
      LET right == Last(component_stack)
          left == Last(Front(component_stack))
          n == new_start_and_accept(nfa)
      IN Compiled(add_edges(n.graph, << <<n.start, left.start_state, None>>,
                                        <<n.start, right.start_state, None>>,
                                        <<left.accept_state, n.accept, None>>,
                                        <<right.accept_state, n.accept, None>> >>),
                  Front(Front(component_stack)), AutomataComponent(n.start, n.accept))

compile(nfa, component_stack, symbol) ==
    CASE symbol = Optional -> compile_optional(nfa, component_stack)
      [] symbol = Plus -> compile_plus(nfa, component_stack)
      [] symbol = Star -> compile_star(nfa, component_stack)
      [] symbol = Concat -> compile_concat(nfa, component_stack)
      [] symbol = Alternation -> compile_alternation(nfa, component_stack)
      [] symbol.t = "Char" -> compile_character(nfa, component_stack, symbol.c)
      [] OTHER -> Panic("Error - Parenthesis should have been removed in postfixing stage!")

\* one turn of the for loop of build_nfa: compile, then push the fragment
build_nfa_step(nfa, component_stack, symbol) ==
    LET compiled == compile(nfa, component_stack, symbol)
    IN IF ~compiled.ok THEN compiled
       ELSE Ok([nfa |-> compiled.val.nfa,
                component_stack |-> Append(compiled.val.component_stack,
                                           compiled.val.component)])

\* after the loop: pop the last fragment, mark its exit accepting, return
\* the fragment (build_dfa reads its start and accept states) and the graph
build_nfa_finish(nfa, component_stack) ==
    IF component_stack = <<>> THEN Panic("called Option::unwrap() on a None value")
    ELSE
      LET fragment == Last(component_stack)
      IN Ok([handle |-> fragment,
             nfa |-> [nfa EXCEPT !.nodes[fragment.accept_state + 1].data =
                                      mark_as_accepting(@)]])

RECURSIVE build_nfa_loop(_, _, _)
build_nfa_loop(postfix_regex, nfa, component_stack) ==
    IF postfix_regex = <<>> THEN build_nfa_finish(nfa, component_stack)
    ELSE LET step == build_nfa_step(nfa, component_stack, Head(postfix_regex))
         IN IF ~step.ok THEN step
            ELSE build_nfa_loop(Tail(postfix_regex), step.val.nfa, step.val.component_stack)

build_nfa(postfix_regex) == build_nfa_loop(postfix_regex, new_graph, <<>>)

(***************************************************************************)
(* regex.rs: get_alphabet.  Its code is not among the sources; the         *)
(* alphabet is the set of characters of the Char symbols of the postfix    *)
(* queue, handed to build_dfa as a Vec<char>.  The order of that vector is *)
(* not known, so get_alphabet is the set of the vectors it may return:     *)
(* every ordering of the set.                                              *)
(***************************************************************************)
alphabet_chars(postfix_regex) ==
    {postfix_regex[k].c : k \in {j \in 1..Len(postfix_regex) : postfix_regex[j].t = "Char"}}

get_alphabet(postfix_regex) ==
    LET chars == alphabet_chars(postfix_regex)
    IN {order \in [1..Cardinality(chars) -> chars] :
           \A c \in chars : \E k \in 1..Cardinality(chars) : order[k] = c}

\* the vectors a caller of build_dfa may pass for the same set of characters:
\* any order, a character possibly listed twice
alphabet_vectors(postfix_regex) ==
    LET chars == alphabet_chars(postfix_regex)
    IN {order \in SeqsUpTo(chars, Cardinality(chars) + 1) :
           \A c \in chars : \E k \in 1..Len(order) : order[k] = c}

(***************************************************************************)
(* dfa.rs: subset construction.  A DFAState is a set of NFA node indices;  *)
(* final_dfa_states maps the sets seen to their DFA node.                  *)
(***************************************************************************)
RECURSIVE sorted(_)
\* the iteration order of a BTreeSet
sorted(S) ==
    IF S = {} THEN <<>>
    ELSE LET least == CHOOSE x \in S : \A y \in S : x <= y
         IN <<least>> \o sorted(S \ {least})

Range(seq) == {seq[k] : k \in 1..Len(seq)}

RECURSIVE PushEmptyTargetsMutant(_, _, _, _)
PushEmptyTargetsMutant(nfa, edges, result, visit_stack) ==
    IF edges = <<>> THEN visit_stack
    ELSE PushEmptyTargetsMutant(nfa, Tail(edges), result,
             IF get_edge_data(nfa, Head(edges)) = None
                   /\ unwrap(traverse(nfa, Head(edges))) \notin result
             THEN Append(visit_stack, unwrap(traverse(nfa, Head(edges))))
             ELSE visit_stack)

RECURSIVE push_empty_targets(_, _, _, _)
\* the for loop of empty_closure over the outgoing edges of a node
push_empty_targets(nfa, edges, result, visit_stack) ==
    IF edges = <<>> THEN visit_stack
    ELSE
      LET edge == Head(edges)
          label == get_edge_data(nfa, edge)
          next == unwrap(traverse(nfa, edge))
      IN push_empty_targets(nfa, Tail(edges), result,
             IF label = None /\ next \notin result /\ next \notin Range(visit_stack)
             THEN Append(visit_stack, next)
             ELSE visit_stack)

RECURSIVE empty_closure_loop(_, _, _, _)
\* the while loop of empty_closure: a depth-first search.  pushed is history:
\* every node pushed on visit_stack so far, in order
empty_closure_loop(nfa, result, visit_stack, pushed) ==
    IF visit_stack = <<>> THEN [result |-> result, pushed |-> pushed]
    ELSE
      LET current == Last(visit_stack)
          visited == result \cup {current}
          popped == Front(visit_stack)
          stack == push_empty_targets(nfa, unwrap(outgoing_edges(nfa, current)),
                                      visited, popped)
      IN empty_closure_loop(nfa, visited, stack,
                            pushed \o SubSeq(stack, Len(popped) + 1, Len(stack)))

EmptyClosureRunMutant(nfa, from) ==
    LET first == IF from = {} THEN <<>> ELSE <<sorted(from)[1]>>
    IN empty_closure_loop(nfa, {}, first, first)

\* the closure, with the history of its visit stack
empty_closure_run(nfa, from) == empty_closure_loop(nfa, {}, sorted(from), sorted(from))

EmptyClosureMutant(nfa, from) == from

empty_closure(nfa, from) == empty_closure_run(nfa, from).result

delta(nfa, from, c) ==
    UNION {{unwrap(traverse(nfa, edge)) :
               edge \in {e \in Range(unwrap(outgoing_edges(nfa, state))) :
                            get_edge_data(nfa, e) = Some(c)}} :
           state \in from}

BuildDfaStartMutant(handle, nfa) ==
    LET start_of_dfa == empty_closure(nfa, {handle.start_state})
        added == add_node(new_graph, AutomataState(FALSE))
    IN [dfa |-> added.graph,
        start_index |-> added.index,
        final_dfa_edges |-> {},
        final_dfa_states |-> (start_of_dfa :> added.index),
        worklist |-> <<<<start_of_dfa, added.index>>>>]

\* the state of build_dfa before its loop
build_dfa_start(handle, nfa) ==
    LET start_of_dfa == empty_closure(nfa, {handle.start_state})
        is_start_accepting == handle.accept_state \in start_of_dfa
        added == add_node(new_graph, AutomataState(is_start_accepting))
    IN [dfa |-> added.graph,
        start_index |-> added.index,
        final_dfa_edges |-> {},
        final_dfa_states |-> (start_of_dfa :> added.index),
        worklist |-> <<<<start_of_dfa, added.index>>>>]

\* the guard against adding an empty state
IsMaterialisedMutant(next) == TRUE

is_materialised(next) == next # {}

\* the guard against adding a duplicate edge
IsNewEdgeMutant(final_dfa_edges, edge) == TRUE

is_new_edge(final_dfa_edges, edge) == edge \notin final_dfa_edges

BuildDfaCharMutant(handle, nfa, d, current, index, c) ==
    LET available_neighbours == delta(nfa, current, c)
        next == empty_closure(nfa, available_neighbours)
    IN
      IF ~is_materialised(next) THEN d
      ELSE
        LET seen == next = current
            added == add_node(d.dfa, AutomataState(handle.accept_state \in next))
            next_index == IF seen THEN d.final_dfa_states[next] ELSE added.index
            d1 == IF seen THEN d
                  ELSE [d EXCEPT !.dfa = added.graph,
                                 !.final_dfa_states = @ @@ (next :> next_index),
                                 !.worklist = Append(@, <<next, next_index>>)]
        IN IF is_new_edge(d1.final_dfa_edges, <<index, next_index, c>>)
           THEN [d1 EXCEPT !.final_dfa_edges = @ \cup {<<index, next_index, c>>},
                           !.dfa = add_edge(@, index, next_index, c)]
           ELSE d1

\* one turn of the for loop over the alphabet, for the popped (current, index)
build_dfa_char(handle, nfa, d, current, index, c) ==
    LET available_neighbours == delta(nfa, current, c)
        next == empty_closure(nfa, available_neighbours)
    IN
      IF ~is_materialised(next) THEN d
      ELSE
        LET seen == next \in DOMAIN d.final_dfa_states
            added == add_node(d.dfa, AutomataState(handle.accept_state \in next))
            next_index == IF seen THEN d.final_dfa_states[next] ELSE added.index
            d1 == IF seen THEN d
                  ELSE [d EXCEPT !.dfa = added.graph,
                                 !.final_dfa_states = @ @@ (next :> next_index),
                                 !.worklist = Append(@, <<next, next_index>>)]
        IN IF is_new_edge(d1.final_dfa_edges, <<index, next_index, c>>)
           THEN [d1 EXCEPT !.final_dfa_edges = @ \cup {<<index, next_index, c>>},
                           !.dfa = add_edge(@, index, next_index, c)]
           ELSE d1

RECURSIVE build_dfa_chars(_, _, _, _, _, _)
build_dfa_chars(handle, nfa, d, current, index, alphabet) ==
    IF alphabet = <<>> THEN d
    ELSE build_dfa_chars(handle, nfa,
             build_dfa_char(handle, nfa, d, current, index, Head(alphabet)),
             current, index, Tail(alphabet))

\* one turn of the while loop: pop the front of the worklist, try every character
build_dfa_step(handle, nfa, alphabet, d) ==
    LET current == Head(d.worklist)[1]
        index == Head(d.worklist)[2]
    IN build_dfa_chars(handle, nfa, [d EXCEPT !.worklist = Tail(@)],
                       current, index, alphabet)

RECURSIVE build_dfa_loop(_, _, _, _)
build_dfa_loop(handle, nfa, alphabet, d) ==
    IF d.worklist = <<>> THEN d
    ELSE build_dfa_loop(handle, nfa, alphabet, build_dfa_step(handle, nfa, alphabet, d))

\* returns (start_index, dfa): the fields of that name
build_dfa(handle, nfa, alphabet) ==
    build_dfa_loop(handle, nfa, alphabet, build_dfa_start(handle, nfa))

(***************************************************************************)
(* lib.rs: the scanner.  A line is a sequence of code points; Rust indexes *)
(* it by bytes of its UTF-8 encoding.                                      *)
(***************************************************************************)
\* char::to_lowercase, as the string it yields
to_lowercase(c) ==
    IF (65 <= c /\ c <= 90) \/ (192 <= c /\ c <= 214) \/ (216 <= c /\ c <= 222)
    THEN <<c + 32>>
    ELSE IF c = 304 THEN <<105, 775>>
    ELSE <<c>>

\* char::len_utf8
len_utf8(c) == IF c < 128 THEN 1 ELSE IF c < 2048 THEN 2 ELSE IF c < 65536 THEN 3 ELSE 4

RECURSIVE str_len(_)
\* str::len: the length in bytes
str_len(line) == IF line = <<>> THEN 0 ELSE len_utf8(Head(line)) + str_len(Tail(line))

\* str::is_char_boundary
is_char_boundary(line, i) == \E k \in 0..Len(line) : str_len(SubSeq(line, 1, k)) = i

\* &line[i..] for a char boundary i
slice_from(line, i) ==
    LET k == CHOOSE n \in 0..Len(line) : str_len(SubSeq(line, 1, n)) = i
    IN SubSeq(line, k + 1, Len(line))

LabelMatchesMutant(label, c, ignore_case) == to_lowercase(label) = to_lowercase(c)

label_matches(label, c, ignore_case) ==
    IF ignore_case THEN to_lowercase(label) = to_lowercase(c) ELSE label = c

RECURSIVE run_automata_edges(_, _, _, _, _)
\* the for loop over the outgoing edges: every matching edge is taken in
\* turn, so the last one in the list decides the node
run_automata_edges(dfa, edges, c, ignore_case, at) ==
    IF edges = <<>> THEN at
    ELSE run_automata_edges(dfa, Tail(edges), c, ignore_case,
             IF label_matches(get_edge_data(dfa, Head(edges)), c, ignore_case)
             THEN [current_node |-> unwrap(traverse(dfa, Head(edges))),
                   can_progress |-> TRUE]
             ELSE at)

RECURSIVE run_automata_chars(_, _, _, _)
\* the for loop over the characters; the node it ends in
run_automata_chars(dfa, current_node, sub_line, ignore_case) ==
    IF sub_line = <<>> THEN current_node
    ELSE
      LET after == run_automata_edges(dfa, unwrap(outgoing_edges(dfa, current_node)),
                                      Head(sub_line), ignore_case,
                                      [current_node |-> current_node,
                                       can_progress |-> FALSE])
      IN IF ~after.can_progress THEN current_node
         ELSE run_automata_chars(dfa, after.current_node, Tail(sub_line), ignore_case)

run_automata(start_of_dfa, dfa, sub_line, ignore_case) ==
    is_accepting(get_node_data(dfa,
        run_automata_chars(dfa, start_of_dfa, sub_line, ignore_case)))

CheckLineStepMutant(start_of_dfa, dfa, line, ignore_case, i) ==
    IF i > str_len(line) THEN Ok(Some(FALSE))
    ELSE IF ~is_char_boundary(line, i)
    THEN Panic("byte index is not a char boundary")
    ELSE IF run_automata(start_of_dfa, dfa, slice_from(line, i), ignore_case)
    THEN Ok(Some(TRUE))
    ELSE Ok(None)

\* one turn of the for loop of check_line_matches at byte offset i: Some(b)
\* when the function returns b, None when the loop goes on, or a panic
check_line_step(start_of_dfa, dfa, line, ignore_case, i) ==
    IF i >= str_len(line) THEN Ok(Some(FALSE))
    ELSE IF ~is_char_boundary(line, i)
    THEN Panic("byte index is not a char boundary")
    ELSE IF run_automata(start_of_dfa, dfa, slice_from(line, i), ignore_case)
    THEN Ok(Some(TRUE))
    ELSE Ok(None)

RECURSIVE check_line_loop(_, _, _, _, _)
check_line_loop(start_of_dfa, dfa, line, ignore_case, i) ==
    LET step == check_line_step(start_of_dfa, dfa, line, ignore_case, i)
    IN IF ~step.ok THEN step
       ELSE IF step.val = None
       THEN check_line_loop(start_of_dfa, dfa, line, ignore_case, i + 1)
       ELSE Ok(step.val[1])

check_line_matches(start_of_dfa, dfa, line, ignore_case) ==
    check_line_loop(start_of_dfa, dfa, line, ignore_case, 0)

RECURSIVE lines(_)
\* str::lines: split at newlines, a carriage return before a newline dropped,
\* no empty line after a final newline
lines(contents) ==
    IF contents = <<>> THEN <<>>
    ELSE
      LET ends == {k \in 1..Len(contents) : contents[k] = Newline}
          end == IF ends = {} THEN Len(contents) + 1
                 ELSE CHOOSE k \in ends : \A j \in ends : k <= j
          raw == SubSeq(contents, 1, end - 1)
          line == IF ends # {} /\ raw # <<>> /\ Last(raw) = CarriageReturn
                  THEN Front(raw) ELSE raw
      IN <<line>> \o lines(SubSeq(contents, end + 1, Len(contents)))

PushResultMutant(results, line) ==
    IF line \in Range(results) THEN results ELSE Append(results, line)

\* results.push(line)
push_result(results, line) == Append(results, line)

(***************************************************************************)
(* State.  A local that does not exist yet is None (an empty sequence).    *)
(***************************************************************************)
VARIABLES
    pc,              \* where the call is
    entry,           \* the function that was called: "transform", "format", "search",
                     \* "main" or "build_dfa"
    regex,           \* the pattern text
    formatted,       \* the token stream format returned
    result,          \* what transform or format returned (a Result), if it has
    postfix_regex,   \* the postfix queue, consumed by build_nfa
    alphabet,        \* the characters of the pattern
    nfa,             \* the NFA graph
    component_stack, \* the fragment stack of build_nfa
    handle,          \* the fragment build_nfa returns
    dfa_build,       \* the locals of build_dfa, the DFA and its start among them
    contents,        \* the text searched
    ignore_case,     \* the flag of search
    remaining,       \* the lines the scan loop has not read yet
    line,            \* the line being checked
    offset,          \* the byte offset check_line_matches is at
    matched,         \* what check_line_matches returned for the line, if it has
    results,         \* the lines collected
    scans,           \* the scans of the lines of contents that run side by side
    graph,           \* a Graph used through its methods alone
    added,           \* history: <<source, target>> of every add_edge call, in order
    answer           \* the last outgoing_edges or traverse call and what it returned

postfix_vars == <<entry, regex, formatted, result>>
nfa_vars == <<postfix_regex, alphabet, nfa, component_stack, handle>>
dfa_vars == <<dfa_build>>
scan_vars == <<contents, ignore_case, remaining, line, offset, matched, results, scans>>
graph_vars == <<graph, added, answer>>
vars == <<pc, postfix_vars, nfa_vars, dfa_vars, scan_vars, graph_vars>>

\* the postfixer alphabet: a n f * + | ( ) \
EscChars == {97, LetterN, LetterF, Asterisk, PlusSign, Pipe, OpenParen, CloseParen, Backslash}
\* the operator alphabet: a b | * ( )
OpChars == {97, 98, Pipe, Asterisk, OpenParen, CloseParen}
\* the query alphabet: a b A |
QueryChars == {97, 98, 65, Pipe}
\* the contents alphabet: a b, a two-byte character and the newline
ContentsChars == {97, 98, 233, Newline}

Patterns == SeqsUpTo(EscChars, MaxEscLen) \cup SeqsUpTo(OpChars, MaxOpLen)
Queries == SeqsUpTo(QueryChars, MaxQueryLen)
\* the alphabet of the patterns main compiles: a b | * + ? ( )
BuildChars == {97, 98, Pipe, Asterisk, PlusSign, QuestionMark, OpenParen, CloseParen}
BuildPatterns == SeqsUpTo(BuildChars, MaxBuildLen)
Contents == SeqsUpTo(ContentsChars, MaxContentsLen)

NoLocals ==
    /\ formatted = None
    /\ result = None
    /\ postfix_regex = None
    /\ alphabet = None
    /\ nfa = None
    /\ component_stack = None
    /\ handle = None
    /\ dfa_build = None
    /\ contents = None
    /\ ignore_case = None
    /\ remaining = None
    /\ line = None
    /\ offset = None
    /\ matched = None
    /\ results = None
    /\ scans = None

NoGraph ==
    /\ graph = None
    /\ added = None
    /\ answer = None

\* transform(pattern) or, as the unit tests do, format(pattern) is called
InitPostfix ==
    /\ regex \in Patterns
    /\ entry \in {"transform", "format"}
    /\ pc = IF entry = "format" THEN "format" ELSE "check_start_and_end_chars"
    /\ NoLocals
    /\ NoGraph

\* search(query, contents, ignore_case) is called; query is read at once,
\* contents and ignore_case are first read by the scan loop and drawn there
Init ==
    /\ regex \in Queries
    /\ entry = "search"
    /\ pc = "check_start_and_end_chars"
    /\ NoLocals
    /\ NoGraph

\* main compiles a pattern to a DFA: transform, get_alphabet, build_nfa,
\* build_dfa (the printing of the DFA that follows changes nothing); or
\* build_dfa is called on the NFA of a pattern with an alphabet vector of the
\* caller's making
InitBuild ==
    /\ regex \in BuildPatterns
    /\ entry \in {"main", "build_dfa"}
    /\ pc = "check_start_and_end_chars"
    /\ NoLocals
    /\ NoGraph

(***************************************************************************)
(* transform, a stage at a time.                                           *)
(***************************************************************************)
CheckStartAndEndChars ==
    /\ pc = "check_start_and_end_chars"
    /\ LET r == check_start_and_end_chars(regex)
       IN IF r.ok
          THEN pc' = "check_for_illegal_operator_sequences" /\ UNCHANGED result
          ELSE pc' = "returned" /\ result' = Some(r)
    /\ UNCHANGED <<entry, regex, formatted, nfa_vars, dfa_vars, scan_vars>>
    /\ UNCHANGED graph_vars

CheckForIllegalOperatorSequences ==
    /\ pc = "check_for_illegal_operator_sequences"
    /\ LET r == check_for_illegal_operator_sequences(regex)
       IN IF r.ok
          THEN pc' = "format" /\ UNCHANGED result
          ELSE pc' = "returned" /\ result' = Some(r)
    /\ UNCHANGED <<entry, regex, formatted, nfa_vars, dfa_vars, scan_vars>>
    /\ UNCHANGED graph_vars

Format ==
    /\ pc = "format"
    /\ LET r == format(regex)
       IN IF r.ok /\ entry # "format"
          THEN pc' = "convert" /\ formatted' = r.val /\ UNCHANGED result
          ELSE pc' = "returned" /\ result' = Some(r) /\ UNCHANGED formatted
    /\ UNCHANGED <<entry, regex, nfa_vars, dfa_vars, scan_vars>>
    /\ UNCHANGED graph_vars

Convert ==
    /\ pc = "convert"
    /\ pc' = "returned"
    /\ result' = Some(convert(formatted))
    /\ UNCHANGED <<entry, regex, formatted, nfa_vars, dfa_vars, scan_vars>>
    /\ UNCHANGED graph_vars

NextPostfix ==
    \/ CheckStartAndEndChars
    \/ CheckForIllegalOperatorSequences
    \/ Format
    \/ Convert

SpecPostfix == InitPostfix /\ [][NextPostfix]_vars

(***************************************************************************)
(* search: compile the query, then scan the lines.                         *)
(***************************************************************************)
\* postfixer::transform(query.to_string()).unwrap()
SearchUnwrap ==
    /\ pc = "returned"
    /\ entry \in {"search", "main", "build_dfa", "scans"}
    /\ IF result[1].ok
       THEN pc' = "get_alphabet" /\ postfix_regex' = result[1].val
       ELSE pc' = "panicked" /\ UNCHANGED postfix_regex
    /\ UNCHANGED <<postfix_vars, alphabet, nfa, component_stack, handle,
                   dfa_vars, scan_vars>>
    /\ UNCHANGED graph_vars

GetAlphabet ==
    /\ pc = "get_alphabet"
    /\ alphabet' \in IF entry = "build_dfa"
                      THEN alphabet_vectors(postfix_regex)
                      ELSE get_alphabet(postfix_regex)
    /\ nfa' = new_graph
    /\ component_stack' = <<>>
    /\ pc' = "build_nfa"
    /\ UNCHANGED <<postfix_vars, postfix_regex, handle, dfa_vars, scan_vars>>
    /\ UNCHANGED graph_vars

\* one turn of the for loop of build_nfa
BuildNfaStep ==
    /\ pc = "build_nfa"
    /\ postfix_regex # <<>>
    /\ LET step == build_nfa_step(nfa, component_stack, Head(postfix_regex))
       IN IF step.ok
          THEN /\ nfa' = step.val.nfa
               /\ component_stack' = step.val.component_stack
               /\ postfix_regex' = Tail(postfix_regex)
               /\ UNCHANGED pc
          ELSE /\ pc' = "panicked"
               /\ UNCHANGED <<nfa, component_stack, postfix_regex>>
    /\ UNCHANGED <<postfix_vars, alphabet, handle, dfa_vars, scan_vars>>
    /\ UNCHANGED graph_vars

\* the queue is used up: the last fragment is popped and marked
BuildNfaFinish ==
    /\ pc = "build_nfa"
    /\ postfix_regex = <<>>
    /\ LET finish == build_nfa_finish(nfa, component_stack)
       IN IF finish.ok
          THEN /\ nfa' = finish.val.nfa
               /\ handle' = finish.val.handle
               /\ component_stack' = Front(component_stack)
               /\ pc' = "build_dfa"
          ELSE /\ pc' = "panicked"
               /\ UNCHANGED <<nfa, handle, component_stack>>
    /\ UNCHANGED <<postfix_vars, postfix_regex, alphabet, dfa_vars, scan_vars>>
    /\ UNCHANGED graph_vars

BuildDfaStart ==
    /\ pc = "build_dfa"
    /\ dfa_build' = build_dfa_start(handle, nfa)
    /\ pc' = "build_dfa_loop"
    /\ UNCHANGED <<postfix_vars, nfa_vars, scan_vars>>
    /\ UNCHANGED graph_vars

\* one turn of the while loop of build_dfa
BuildDfaStep ==
    /\ pc = "build_dfa_loop"
    /\ dfa_build.worklist # <<>>
    /\ dfa_build' = build_dfa_step(handle, nfa, alphabet, dfa_build)
    /\ UNCHANGED <<pc, postfix_vars, nfa_vars, scan_vars>>
    /\ UNCHANGED graph_vars

\* the worklist is empty: build_dfa returns and the scan loop starts
StartScan ==
    /\ pc = "build_dfa_loop"
    /\ entry = "search"
    /\ dfa_build.worklist = <<>>
    /\ contents' \in Contents
    /\ ignore_case' \in BOOLEAN
    /\ remaining' = lines(contents')
    /\ results' = <<>>
    /\ pc' = "next_line"
    /\ UNCHANGED <<postfix_vars, nfa_vars, dfa_vars, line, offset, matched, scans>>
    /\ UNCHANGED graph_vars

\* for line in contents.lines(): the next line, or the end of search
NextLine ==
    /\ pc = "next_line"
    /\ IF remaining = <<>>
       THEN pc' = "done" /\ UNCHANGED <<remaining, line, offset, matched>>
       ELSE /\ line' = Head(remaining)
            /\ remaining' = Tail(remaining)
            /\ offset' = 0
            /\ matched' = None
            /\ pc' = "check_line_matches"
    /\ UNCHANGED <<postfix_vars, nfa_vars, dfa_vars, contents, ignore_case, results, scans>>
    /\ UNCHANGED graph_vars

\* one turn of the for loop of check_line_matches
CheckLineStep ==
    /\ pc = "check_line_matches"
    /\ LET step == check_line_step(dfa_build.start_index, dfa_build.dfa,
                                   line, ignore_case, offset)
       IN IF ~step.ok
          THEN pc' = "panicked" /\ UNCHANGED <<offset, matched>>
          ELSE IF step.val = None
          THEN offset' = offset + 1 /\ UNCHANGED <<pc, matched>>
          ELSE matched' = step.val /\ pc' = "line_checked" /\ UNCHANGED offset
    /\ UNCHANGED <<postfix_vars, nfa_vars, dfa_vars, contents, ignore_case,
                   remaining, line, results, scans>>
    /\ UNCHANGED graph_vars

\* if check_line_matches(...) { results.push(line) }
CollectLine ==
    /\ pc = "line_checked"
    /\ results' = IF matched[1] THEN push_result(results, line) ELSE results
    /\ pc' = "next_line"
    /\ UNCHANGED <<postfix_vars, nfa_vars, dfa_vars, contents, ignore_case,
                   remaining, line, offset, matched, scans>>
    /\ UNCHANGED graph_vars

Next ==
    \/ NextPostfix
    \/ SearchUnwrap
    \/ GetAlphabet
    \/ BuildNfaStep
    \/ BuildNfaFinish
    \/ BuildDfaStart
    \/ BuildDfaStep
    \/ StartScan
    \/ NextLine
    \/ CheckLineStep
    \/ CollectLine

Spec == Init /\ [][Next]_vars

(***************************************************************************)
(* main, and build_dfa called on its own: the pipeline up to the DFA.      *)
(***************************************************************************)
\* the worklist is empty: build_dfa returns (start_index, dfa)
BuildDfaReturn ==
    /\ pc = "build_dfa_loop"
    /\ entry \in {"main", "build_dfa"}
    /\ dfa_build.worklist = <<>>
    /\ pc' = "built"
    /\ UNCHANGED <<postfix_vars, nfa_vars, dfa_vars, scan_vars>>
    /\ UNCHANGED graph_vars

NextBuild ==
    \/ NextPostfix
    \/ SearchUnwrap
    \/ GetAlphabet
    \/ BuildNfaStep
    \/ BuildNfaFinish
    \/ BuildDfaStart
    \/ BuildDfaStep
    \/ BuildDfaReturn

SpecBuild == InitBuild /\ [][NextBuild]_vars

\* the patterns of repetitions and groups over one letter: a | * + ( )
RepetitionChars == {97, Pipe, Asterisk, PlusSign, OpenParen, CloseParen}
RepetitionPatterns == SeqsUpTo(RepetitionChars, MaxBuildLen)

InitBuildLive == InitBuild /\ regex \in RepetitionPatterns

\* the call has neither returned nor panicked: some step of NextBuild is enabled
Running == pc \notin {"built", "panicked"}

\* the program runs on: a call that can take a step takes it.  This is weak
\* fairness of NextBuild, WF_vars(NextBuild), with ENABLED <<NextBuild>>_vars
\* written as the condition it amounts to, Running
RunsOn == []<>(~Running) \/ []<><<NextBuild>>_vars

SpecBuildLive ==
    InitBuildLive /\ [][NextBuild]_vars /\ RunsOn /\ WF_vars(BuildDfaReturn)

(***************************************************************************)
(* search on patterns with * and ?, whose language holds the empty string. *)
(***************************************************************************)
\* the alphabet of these patterns: a b * ?
StarChars == {97, 98, Asterisk, QuestionMark}
StarPatterns == SeqsUpTo(StarChars, MaxStarLen)

InitStar ==
    /\ regex \in StarPatterns
    /\ entry = "search"
    /\ pc = "check_start_and_end_chars"
    /\ NoLocals
    /\ NoGraph

SpecStar == InitStar /\ [][Next]_vars

(***************************************************************************)
(* The lines of contents scanned side by side against one DFA: each line   *)
(* has its own call of check_line_matches, and the turns of the loops of   *)
(* the calls are taken in any order.                                       *)
(***************************************************************************)
InitScans ==
    /\ regex \in StarPatterns
    /\ entry = "scans"
    /\ pc = "check_start_and_end_chars"
    /\ NoLocals
    /\ NoGraph

\* a call of check_line_matches: its line, the offset its loop is at, and
\* what it returned, if it has (a panic is an Err)
Scan(text) == [line |-> text, offset |-> 0, returned |-> None]

\* build_dfa has returned: one call per line starts
StartScans ==
    /\ pc = "build_dfa_loop"
    /\ entry = "scans"
    /\ dfa_build.worklist = <<>>
    /\ contents' \in Contents
    /\ ignore_case' \in BOOLEAN
    /\ scans' = [k \in 1..Len(lines(contents')) |-> Scan(lines(contents')[k])]
    /\ pc' = "scans"
    /\ UNCHANGED <<postfix_vars, nfa_vars, dfa_vars, remaining, line, offset,
                   matched, results>>
    /\ UNCHANGED graph_vars

ScanStepMutant ==
    /\ pc = "scans"
    /\ \E k \in 1..Len(scans) :
          /\ scans[k].returned = None
          /\ LET step == check_line_step(dfa_build.start_index, dfa_build.dfa,
                                         scans[k].line, ignore_case, scans[k].offset)
             IN /\ scans' = IF ~step.ok THEN [scans EXCEPT ![k].returned = Some(step)]
                            ELSE IF step.val = None
                            THEN [scans EXCEPT ![k].offset = @ + 1]
                            ELSE [scans EXCEPT ![k].returned = Some(Ok(step.val[1]))]
                /\ dfa_build' = IF step.ok /\ step.val = None
                                THEN [dfa_build EXCEPT
                                        !.dfa.nodes[dfa_build.start_index + 1].data =
                                            mark_as_accepting(@)]
                                ELSE dfa_build
    /\ UNCHANGED <<pc, postfix_vars, nfa_vars, contents, ignore_case,
                   remaining, line, offset, matched, results>>
    /\ UNCHANGED graph_vars

\* one turn of the loop of one of the calls
ScanStep ==
    /\ pc = "scans"
    /\ \E k \in 1..Len(scans) :
          /\ scans[k].returned = None
          /\ LET step == check_line_step(dfa_build.start_index, dfa_build.dfa,
                                         scans[k].line, ignore_case, scans[k].offset)
             IN scans' = IF ~step.ok THEN [scans EXCEPT ![k].returned = Some(step)]
                         ELSE IF step.val = None
                         THEN [scans EXCEPT ![k].offset = @ + 1]
                         ELSE [scans EXCEPT ![k].returned = Some(Ok(step.val[1]))]
    /\ UNCHANGED <<pc, postfix_vars, nfa_vars, dfa_vars, contents, ignore_case,
                   remaining, line, offset, matched, results>>
    /\ UNCHANGED graph_vars

NextScans ==
    \/ NextPostfix
    \/ SearchUnwrap
    \/ GetAlphabet
    \/ BuildNfaStep
    \/ BuildNfaFinish
    \/ BuildDfaStart
    \/ BuildDfaStep
    \/ StartScans
    \/ ScanStep

SpecScans == InitScans /\ [][NextScans]_vars

(***************************************************************************)
(* A Graph used through its methods, as the tests of graph.rs use it:      *)
(* add_node and add_edge in any order, then outgoing_edges and traverse    *)
(* with any index.                                                         *)
(***************************************************************************)
InitGraph ==
    /\ entry = "graph"
    /\ pc = "graph"
    /\ regex = None
    /\ NoLocals
    /\ graph = new_graph
    /\ added = <<>>
    /\ answer = None

\* the payloads of the nodes and edges
Payloads == {"x", "y"}

Call(method, index, returned) == [method |-> method, index |-> index, returned |-> returned]

AddNode ==
    /\ pc = "graph"
    /\ Len(graph.nodes) < MaxNodes
    /\ \E data \in Payloads : graph' = add_node(graph, data).graph
    /\ answer' = None
    /\ UNCHANGED <<pc, postfix_vars, nfa_vars, dfa_vars, scan_vars, added>>

\* add_edge indexes nodes[source] unchecked, and does not look at target
AddEdge ==
    /\ pc = "graph"
    /\ Len(graph.edges) < MaxEdges
    /\ \E source, target \in 0..(MaxNodes - 1), data \in Payloads :
          IF source < Len(graph.nodes)
          THEN /\ graph' = add_edge(graph, source, target, data)
               /\ added' = Append(added, <<source, target>>)
               /\ answer' = None
               /\ UNCHANGED pc
          ELSE /\ pc' = "panicked"
               /\ UNCHANGED <<graph, added, answer>>
    /\ UNCHANGED <<postfix_vars, nfa_vars, dfa_vars, scan_vars>>

OutgoingEdges ==
    /\ pc = "graph"
    /\ \E source \in 0..MaxNodes :
          LET returned == outgoing_edges(graph, source)
          IN /\ answer' = Some(Call("outgoing_edges", source, returned))
             /\ pc' = IF IsPanic(returned) THEN "panicked" ELSE pc
    /\ UNCHANGED <<postfix_vars, nfa_vars, dfa_vars, scan_vars, graph, added>>

Traverse ==
    /\ pc = "graph"
    /\ \E edge \in 0..MaxEdges :
          LET returned == traverse(graph, edge)
          IN /\ answer' = Some(Call("traverse", edge, returned))
             /\ pc' = IF IsPanic(returned) THEN "panicked" ELSE pc
    /\ UNCHANGED <<postfix_vars, nfa_vars, dfa_vars, scan_vars, graph, added>>

NextGraph ==
    \/ AddNode
    \/ AddEdge
    \/ OutgoingEdges
    \/ Traverse

SpecGraph == InitGraph /\ [][NextGraph]_vars

(***************************************************************************)
(* Reference reading of a raw pattern, independent of the postfixer: which *)
(* positions are escaped, and how deep the unescaped parentheses nest.     *)
(***************************************************************************)
RECURSIVE IsEscapedAt(_, _)
\* position i holds a character escaped by an unescaped backslash before it
IsEscapedAt(p, i) == i > 1 /\ p[i - 1] = Backslash /\ ~IsEscapedAt(p, i - 1)

IsUnescaped(p, i, c) == p[i] = c /\ ~IsEscapedAt(p, i)

ParenDepth(p, i) ==
    Cardinality({k \in 1..i : IsUnescaped(p, k, OpenParen)})
        - Cardinality({k \in 1..i : IsUnescaped(p, k, CloseParen)})

UnbalancedParens(p) ==
    \/ \E i \in 1..Len(p) : ParenDepth(p, i) < 0
    \/ ParenDepth(p, Len(p)) > 0

UnaryChars == {QuestionMark, PlusSign, Asterisk}
OperatorChars == UnaryChars \cup {Pipe}
MetaChars == OperatorChars \cup {OpenParen, CloseParen}
EscapeChars == MetaChars \cup {LetterT, LetterN, LetterR, LetterF, LetterB, Backslash}

Returned == pc = "returned" /\ result # None
Returned_transform == Returned /\ entry = "transform"
Returned_format == Returned /\ entry = "format"

(***************************************************************************)
(* C4: transform returns an error, and no postfix queue, for every pattern *)
(* that begins with an operator character, ends with |, holds a raw        *)
(* adjacent pair binary-then-operator or unary-then-unary, or has          *)
(* unbalanced unescaped parentheses.                                       *)
(***************************************************************************)
C4_Illegal(p) ==
    \/ Len(p) > 0 /\ p[1] \in OperatorChars
    \/ Len(p) > 0 /\ p[Len(p)] = Pipe
    \/ \E i \in 1..(Len(p) - 1) :
          \/ p[i] = Pipe /\ p[i + 1] \in OperatorChars
          \/ p[i] \in UnaryChars /\ p[i + 1] \in UnaryChars
    \/ UnbalancedParens(p)

C4_IllegalPatternsRejected ==
    Returned_transform /\ C4_Illegal(regex)
        => ~result[1].ok /\ result[1].val = <<>>

\* a pattern that passes the raw checks and is rejected by convert for its parentheses
C4_Witness ==
    /\ Returned_transform
    /\ UnbalancedParens(regex)
    /\ formatted # <<>>
    /\ result[1].err.msg = "Error - Unbalanced brackets"

(***************************************************************************)
(* C5: an escaped metacharacter is a literal in every stage of transform:  *)
(* transform(P) succeeds exactly when transform(P') does, P' having an     *)
(* ordinary literal x in place of each escaped metacharacter, and the two  *)
(* queues agree except that Char(m) stands where Char(x) stands.           *)
(***************************************************************************)
\* ordinary literals that occur in no pattern of the model: x
OrdinaryLiterals == {120}

RECURSIVE Unescape(_, _, _)
\* P' from position i on: x for each escaped metacharacter, the rest kept
Unescape(p, i, x) ==
    IF i > Len(p) THEN <<>>
    ELSE IF p[i] = Backslash /\ i < Len(p)
    THEN IF p[i + 1] \in MetaChars
         THEN <<x>> \o Unescape(p, i + 2, x)
         ELSE <<p[i], p[i + 1]>> \o Unescape(p, i + 2, x)
    ELSE <<p[i]>> \o Unescape(p, i + 1, x)

HasEscapedMeta(p) ==
    \E i \in 2..Len(p) : p[i] \in MetaChars /\ IsEscapedAt(p, i)

SameUpToLiteral(q, qx, x) ==
    /\ Len(q) = Len(qx)
    /\ \A k \in 1..Len(q) :
          IF qx[k] = Char(x)
          THEN q[k].t = "Char" /\ q[k].c \in MetaChars
          ELSE q[k] = qx[k]

C5_EscapedMetaIsLiteral ==
    Returned_transform /\ HasEscapedMeta(regex)
        => \A x \in OrdinaryLiterals :
              LET rx == transform(Unescape(regex, 1, x))
              IN /\ result[1].ok = rx.ok
                 /\ result[1].ok => SameUpToLiteral(result[1].val, rx.val, x)

(***************************************************************************)
(* C6: get_escaped maps ? + * | ( ) \ to the Char of the same character    *)
(* and t n r f b to tab, newline, carriage return, form feed (U+000C) and  *)
(* backspace: twelve distinct characters.                                  *)
(***************************************************************************)
C6_Expected(c) ==
    CASE c = LetterT -> Tab
      [] c = LetterN -> Newline
      [] c = LetterR -> CarriageReturn
      [] c = LetterF -> 12
      [] c = LetterB -> Backspace
      [] OTHER -> c

\* stated on the token format emits for the two-character pattern \c
C6_EscapesAsDocumented ==
    /\ Returned_format
    /\ Len(regex) = 2
    /\ regex[1] = Backslash
    /\ regex[2] \in EscapeChars
    => /\ result[1] = Ok(<<Char(C6_Expected(regex[2]))>>)
       /\ \A d \in EscapeChars \ {regex[2]} :
             get_escaped(d).val # result[1].val[1]

(***************************************************************************)
(* C7: tokenisation fails, emitting no token stream, for every pattern     *)
(* whose last character is an unescaped backslash or in which an unescaped *)
(* backslash is followed by a character that is no escape; an escaped      *)
(* backslash never starts an escape, so format fails for no other pattern. *)
(***************************************************************************)
C7_BadEscape(p) ==
    \E i \in 1..Len(p) :
        /\ IsUnescaped(p, i, Backslash)
        /\ (i = Len(p) \/ p[i + 1] \notin EscapeChars)

C7_BadEscapesRejected ==
    /\ Returned /\ C7_BadEscape(regex) => ~result[1].ok /\ result[1].val = <<>>
    /\ Returned_format /\ ~C7_BadEscape(regex) => result[1].ok

\* a backslash escaped by another, then a trailing unescaped one
C7_Witness ==
    /\ Returned_format
    /\ Len(regex) >= 3
    /\ IsEscapedAt(regex, Len(regex) - 1)
    /\ IsUnescaped(regex, Len(regex), Backslash)
    /\ result[1].err.msg = "Error - Pattern may not end with a trailing backslash"

(***************************************************************************)
(* C8: the postfix queue transform returns holds no Open and no Close.     *)
(***************************************************************************)
C8_NoParensInPostfix ==
    Returned_transform /\ result[1].ok
        => \A k \in 1..Len(result[1].val) : result[1].val[k] \notin {Open, Close}

\* a pattern with a group, whose token stream held Open and Close
C8_Witness ==
    /\ Returned_transform
    /\ result[1].ok
    /\ \E i, j \in 1..Len(formatted) : formatted[i] = Open /\ formatted[j] = Close
    /\ Len(result[1].val) >= 3

(***************************************************************************)
(* Reference grammar of patterns, read from the raw text by recursive      *)
(* descent, independent of format and convert:                             *)
(*     alt ::= cat ( "|" cat )*      left-associative, loosest             *)
(*     cat ::= rep rep*              left-associative                      *)
(*     rep ::= atom ( "?" | "+" | "*" )*                                   *)
(*     atom ::= literal | "(" alt ")"                                      *)
(* A tree is a record: its operator, its character, its children.         *)
(***************************************************************************)
Tree(op, c, kids) == [op |-> op, c |-> c, kids |-> kids]

RECURSIVE RefTokens(_, _)
\* the raw pattern as literals and metacharacters, escapes resolved
RefTokens(p, i) ==
    IF i > Len(p) THEN <<>>
    ELSE IF p[i] = Backslash
    THEN IF i = Len(p) \/ p[i + 1] \notin EscapeChars
         THEN <<[k |-> "bad", c |-> 0]>>
         ELSE <<[k |-> "lit", c |-> get_escaped(p[i + 1]).val.c]>> \o RefTokens(p, i + 2)
    ELSE <<[k |-> IF p[i] \in MetaChars THEN "meta" ELSE "lit", c |-> p[i]]>>
             \o RefTokens(p, i + 1)

Parsed(tree, pos) == [ok |-> TRUE, tree |-> tree, pos |-> pos]
NoParse == [ok |-> FALSE, tree |-> <<>>, pos |-> 0]

IsMeta(ts, i, c) == i <= Len(ts) /\ ts[i].k = "meta" /\ ts[i].c = c
StartsAtom(ts, i) == i <= Len(ts) /\ (ts[i].k = "lit" \/ IsMeta(ts, i, OpenParen))

RECURSIVE ParseAlt(_, _), AltLoop(_, _), ParseCat(_, _), CatLoop(_, _)
RECURSIVE ParseRep(_, _), RepLoop(_, _), ParseAtom(_, _)

ParseAtom(ts, i) ==
    IF i > Len(ts) THEN NoParse
    ELSE IF ts[i].k = "lit" THEN Parsed(Tree("Char", ts[i].c, <<>>), i + 1)
    ELSE IF IsMeta(ts, i, OpenParen)
    THEN LET inner == ParseAlt(ts, i + 1)
         IN IF inner.ok /\ IsMeta(ts, inner.pos, CloseParen)
            THEN Parsed(inner.tree, inner.pos + 1)
            ELSE NoParse
    ELSE NoParse

RepLoop(ts, left) ==
    IF \E u \in UnaryChars : IsMeta(ts, left.pos, u)
    THEN RepLoop(ts, Parsed(Tree(from_char(ts[left.pos].c).t, 0, <<left.tree>>),
                            left.pos + 1))
    ELSE left

ParseRep(ts, i) ==
    LET atom == ParseAtom(ts, i)
    IN IF atom.ok THEN RepLoop(ts, atom) ELSE NoParse

CatLoop(ts, left) ==
    IF StartsAtom(ts, left.pos)
    THEN LET right == ParseRep(ts, left.pos)
         IN IF right.ok
            THEN CatLoop(ts, Parsed(Tree("Concat", 0, <<left.tree, right.tree>>), right.pos))
            ELSE NoParse
    ELSE left

ParseCat(ts, i) ==
    LET first == ParseRep(ts, i)
    IN IF first.ok THEN CatLoop(ts, first) ELSE NoParse

AltLoop(ts, left) ==
    IF IsMeta(ts, left.pos, Pipe)
    THEN LET right == ParseCat(ts, left.pos + 1)
         IN IF right.ok
            THEN AltLoop(ts, Parsed(Tree("Alternation", 0, <<left.tree, right.tree>>), right.pos))
            ELSE NoParse
    ELSE left

ParseAlt(ts, i) ==
    LET first == ParseCat(ts, i)
    IN IF first.ok THEN AltLoop(ts, first) ELSE NoParse

\* the tree of the whole pattern, or NoParse
Parse(p) ==
    LET ts == RefTokens(p, 1)
        whole == ParseAlt(ts, 1)
    IN IF whole.ok /\ whole.pos = Len(ts) + 1 THEN whole ELSE NoParse

RECURSIVE EvalPostfixLoop(_, _, _)
\* the postfix queue evaluated as a stack expression: the stack of trees
EvalPostfixLoop(q, i, stack) ==
    IF i > Len(q)
    THEN IF Len(stack) = 1 THEN Parsed(stack[1], i) ELSE NoParse
    ELSE IF get_type(q[i]) = "Unary"
    THEN IF Len(stack) < 1 THEN NoParse
         ELSE EvalPostfixLoop(q, i + 1,
                  Append(Front(stack), Tree(q[i].t, 0, <<Last(stack)>>)))
    ELSE IF get_type(q[i]) = "Binary"
    THEN IF Len(stack) < 2 THEN NoParse
         ELSE EvalPostfixLoop(q, i + 1,
                  Append(Front(Front(stack)),
                         Tree(q[i].t, 0, <<Last(Front(stack)), Last(stack)>>)))
    ELSE IF q[i].t = "Char"
    THEN EvalPostfixLoop(q, i + 1, Append(stack, Tree("Char", q[i].c, <<>>)))
    ELSE NoParse

EvalPostfix(q) == EvalPostfixLoop(q, 1, <<>>)

(***************************************************************************)
(* C9: for every pattern transform accepts, the postfix queue evaluated as *)
(* a stack expression builds the tree the pattern parses to, with unary    *)
(* operators tightest, then concatenation, then alternation, both binary   *)
(* operators left-associative.                                             *)
(***************************************************************************)
C9_PostfixIsParseTree ==
    Returned_transform /\ result[1].ok
        => /\ Parse(regex).ok
           /\ EvalPostfix(result[1].val).ok
           /\ EvalPostfix(result[1].val).tree = Parse(regex).tree

\* the same, for the accepted patterns that the grammar generates
C9_OnGrammaticalPatterns ==
    Returned_transform /\ result[1].ok /\ Parse(regex).ok
        => /\ EvalPostfix(result[1].val).ok
           /\ EvalPostfix(result[1].val).tree = Parse(regex).tree

\* the accepted patterns outside the grammar: empty, or with an empty group,
\* an operator right after an open parenthesis or a | right before a close
C9_UngrammaticalAccepted ==
    Returned_transform /\ result[1].ok /\ ~Parse(regex).ok
        => \/ regex = <<>>
           \/ \E i \in 1..(Len(regex) - 1) :
                 /\ IsUnescaped(regex, i, OpenParen)
                 /\ regex[i + 1] \in OperatorChars \cup {CloseParen}
           \/ \E i \in 1..(Len(regex) - 1) :
                 /\ IsUnescaped(regex, i, Pipe)
                 /\ regex[i + 1] = CloseParen

(***************************************************************************)
(* C10: in the token stream of format a Concat stands between two          *)
(* consecutive symbols exactly when the left one is a Char, a Close or a   *)
(* unary operator and the right one is a Char or an Open; no Concat is     *)
(* first, last or next to another Concat.                                  *)
(***************************************************************************)
C10_Left(s) == s.t \in {"Char", "Close", "Optional", "Plus", "Star"}
C10_Right(s) == s.t \in {"Char", "Open"}

C10_ConcatPlacement(toks) ==
    /\ \A i \in 1..Len(toks) :
          toks[i] = Concat =>
              /\ 1 < i /\ i < Len(toks)
              /\ C10_Left(toks[i - 1])
              /\ C10_Right(toks[i + 1])
    /\ \A i \in 1..(Len(toks) - 1) :
          C10_Left(toks[i]) /\ C10_Right(toks[i + 1]) => FALSE

C10_ConcatBetweenOperands ==
    /\ Returned_format /\ result[1].ok => C10_ConcatPlacement(result[1].val)
    /\ pc = "convert" => C10_ConcatPlacement(formatted)

\* a stream with a Concat after an escaped character and a group without one inside
C10_Witness ==
    /\ Returned_format
    /\ result[1].ok
    /\ \E i \in 2..Len(result[1].val) :
          result[1].val[i] = Concat /\ IsEscapedAt(regex, 2)
    /\ \E i \in 1..(Len(result[1].val) - 1) :
          result[1].val[i] = Open /\ result[1].val[i + 1].t = "Char"

(***************************************************************************)
(* Reference semantics: the language of a tree, and a line containing a    *)
(* match.                                                                  *)
(***************************************************************************)
RECURSIVE Matches(_, _)
\* the string s is in the language of the tree
Matches(tree, s) ==
    CASE tree.op = "Char" -> s = <<tree.c>>
      [] tree.op = "Concat" ->
            \E k \in 0..Len(s) :
                /\ Matches(tree.kids[1], SubSeq(s, 1, k))
                /\ Matches(tree.kids[2], SubSeq(s, k + 1, Len(s)))
      [] tree.op = "Alternation" ->
            Matches(tree.kids[1], s) \/ Matches(tree.kids[2], s)
      [] tree.op = "Optional" -> s = <<>> \/ Matches(tree.kids[1], s)
      [] tree.op = "Plus" ->
            \/ Matches(tree.kids[1], s)
            \/ \E k \in 1..(Len(s) - 1) :
                  /\ Matches(tree.kids[1], SubSeq(s, 1, k))
                  /\ Matches(tree, SubSeq(s, k + 1, Len(s)))
      [] tree.op = "Star" ->
            \/ s = <<>>
            \/ \E k \in 1..Len(s) :
                  /\ Matches(tree.kids[1], SubSeq(s, 1, k))
                  /\ Matches(tree, SubSeq(s, k + 1, Len(s)))

\* there are offsets i < |L| and i <= j <= |L| with L[i..j] in the language
ContainsMatch(tree, L) ==
    \E i \in 0..(Len(L) - 1) : \E j \in i..Len(L) : Matches(tree, SubSeq(L, i + 1, j))

LineChecked == pc = "line_checked" /\ matched # None

(***************************************************************************)
(* C1: in case-sensitive mode check_line_matches returns true for a line   *)
(* if and only if the line contains a match: some substring of it, from an *)
(* offset inside the line, is in the language of the pattern.              *)
(***************************************************************************)
C1_TrueIffLineContainsMatch ==
    LineChecked /\ ~ignore_case
        => (matched[1] <=> ContainsMatch(Parse(regex).tree, line))

\* what the scanner does guarantee: a line it reports contains a match
C1_ReportedLineContainsMatch ==
    LineChecked /\ ~ignore_case /\ matched[1]
        => ContainsMatch(Parse(regex).tree, line)

(***************************************************************************)
(* C2: search returns exactly the lines of contents for which the scanner  *)
(* returns true, in the order they occur in contents, a repeated line as   *)
(* often as it occurs.                                                     *)
(***************************************************************************)
RECURSIVE AcceptedLines(_)
\* the lines of ls the scanner accepts, in order
AcceptedLines(ls) ==
    IF ls = <<>> THEN <<>>
    ELSE LET accepted == check_line_matches(dfa_build.start_index, dfa_build.dfa,
                                            Head(ls), ignore_case)
         IN (IF accepted = Ok(TRUE) THEN <<Head(ls)>> ELSE <<>>)
                \o AcceptedLines(Tail(ls))

C2_ResultsAreAcceptedLinesInOrder ==
    pc = "done" => results = AcceptedLines(lines(contents))

\* a line occurs twice in contents and is returned twice
C2_Witness ==
    /\ pc = "done"
    /\ Len(lines(contents)) = 2
    /\ lines(contents)[1] = lines(contents)[2]
    /\ results = lines(contents)

\* two different lines are returned in the order of contents
C2_WitnessOrder ==
    /\ pc = "done"
    /\ Len(results) = 2
    /\ results[1] # results[2]
    /\ results = lines(contents)

(***************************************************************************)
(* C3: case-insensitive search agrees with case-sensitive search on the    *)
(* lowercased pattern and the lowercased line: the scanner accepts L for P *)
(* with ignore_case exactly when it accepts lower(L) for lower(P) without. *)
(***************************************************************************)
\* every character replaced by its single-character lowercase form
lower(text) == [k \in 1..Len(text) |-> to_lowercase(text[k])[1]]

\* search(query, line, FALSE) returns the line, whatever the alphabet order
SearchReturnsLine(query, text) ==
    LET postfix == transform(query).val
        built == build_nfa(postfix).val
    IN \A order \in get_alphabet(postfix) :
          LET d == build_dfa(built.handle, built.nfa, order)
          IN check_line_matches(d.start_index, d.dfa, text, FALSE) = Ok(TRUE)

C3_IgnoreCaseIsLowercasedSearch ==
    LineChecked /\ ignore_case
        => (matched[1] <=> SearchReturnsLine(lower(regex), lower(line)))

(***************************************************************************)
(* C11: for every pattern transform accepts, build_nfa never pops an empty *)
(* fragment stack while it processes the postfix queue, and exactly one    *)
(* fragment is on the stack when the queue is used up.                     *)
(***************************************************************************)
\* the next step of build_nfa finds the fragments it pops
NoStackUnderflow ==
    IF postfix_regex = <<>>
    THEN Len(component_stack) = 1
    ELSE build_nfa_step(nfa, component_stack, Head(postfix_regex)).ok

C11_NoStackUnderflow == pc = "build_nfa" => NoStackUnderflow

\* the same, for the accepted patterns that the grammar generates
C11_OnGrammaticalPatterns == pc = "build_nfa" /\ Parse(regex).ok => NoStackUnderflow

\* build_nfa never ends with fragments left over: it underflows or ends with one
C11_NoFragmentLeftOver ==
    pc = "build_nfa" /\ postfix_regex = <<>> => Len(component_stack) <= 1

(***************************************************************************)
(* Reference semantics of an automaton in a graph: the nodes reached from  *)
(* a set of nodes along paths whose labels spell a string.                 *)
(***************************************************************************)
\* the strings the automata are compared on
Strings == SeqsUpTo({97, 98}, MaxStringLen)

\* the edges that leave node n
EdgesFrom(g, n) == Range(edge_chain(g, g.nodes[n + 1].first_outgoing_edge))

\* the targets of the edges labelled label that leave a node of S
Targets(g, S, label) ==
    {g.edges[e + 1].target :
        e \in {x \in UNION {EdgesFrom(g, n) : n \in S} : g.edges[x + 1].data = label}}

RECURSIVE EpsilonReach(_, _)
\* the nodes reached from S along empty transitions only
EpsilonReach(g, S) ==
    LET T == S \cup Targets(g, S, None)
    IN IF T = S THEN S ELSE EpsilonReach(g, T)

RECURSIVE NfaReach(_, _, _)
\* the nodes reached from S along paths that spell s
NfaReach(g, S, s) ==
    IF s = <<>> THEN EpsilonReach(g, S)
    ELSE NfaReach(g, Targets(g, EpsilonReach(g, S), Some(Head(s))), Tail(s))

NfaAccepts(g, component, s) ==
    component.accept_state \in NfaReach(g, {component.start_state}, s)

NfaBuilt == pc \in {"build_dfa", "build_dfa_loop", "built"}

(***************************************************************************)
(* C12: for a well-formed postfix queue the NFA build_nfa returns accepts  *)
(* a string, along a path from the start node to the accepting node, if    *)
(* and only if the string is in the language of the expression.            *)
(***************************************************************************)
C12_NfaAcceptsLanguage ==
    pc = "build_dfa" /\ EvalPostfix(result[1].val).ok
        => \A s \in Strings :
              NfaAccepts(nfa, handle, s) <=> Matches(EvalPostfix(result[1].val).tree, s)

\* a repeated group: abab is accepted, aba is not
C12_Witness ==
    /\ pc = "build_dfa"
    /\ EvalPostfix(result[1].val).ok
    /\ EvalPostfix(result[1].val).tree.op \in {"Star", "Plus"}
    /\ NfaAccepts(nfa, handle, <<97, 98, 97, 98>>)
    /\ ~NfaAccepts(nfa, handle, <<97, 98, 97>>)

\* every queue build_nfa gets through is well-formed
C12_BuiltFromWellFormedQueue == pc = "build_dfa" => EvalPostfix(result[1].val).ok

(***************************************************************************)
(* C13: while build_nfa constructs the NFA no node is accepting; when it   *)
(* has returned exactly one node is, the exit of the last fragment.        *)
(***************************************************************************)
AcceptingNodes(g) == {n \in 0..(Len(g.nodes) - 1) : is_accepting(get_node_data(g, n))}

C13_OneAcceptingNode ==
    /\ pc = "build_nfa" => AcceptingNodes(nfa) = {}
    /\ NfaBuilt => AcceptingNodes(nfa) = {handle.accept_state}

\* build_nfa has returned an NFA made of an alternation inside a repetition
C13_Witness ==
    /\ pc = "build_dfa"
    /\ Len(nfa.nodes) >= 8
    /\ AcceptingNodes(nfa) = {handle.accept_state}
    /\ handle.start_state # 0

(***************************************************************************)
(* C14: following a string from the DFA start along the DFA edges ends in  *)
(* an accepting DFA node if and only if the NFA accepts the string; a      *)
(* string for which a step has no edge is accepted by neither.             *)
(***************************************************************************)
RECURSIVE DfaReach(_, _, _)
\* the DFA nodes reached from S along the edges labelled with the characters of s
DfaReach(g, S, s) ==
    IF s = <<>> THEN S ELSE DfaReach(g, Targets(g, S, Head(s)), Tail(s))

DfaAccepts(g, start, s) ==
    \E n \in DfaReach(g, {start}, s) : is_accepting(get_node_data(g, n))

DfaBuilt == pc = "built"

C14_DfaEquivalentToNfa ==
    DfaBuilt => \A s \in Strings :
                   DfaAccepts(dfa_build.dfa, dfa_build.start_index, s)
                       <=> NfaAccepts(nfa, handle, s)

\* a DFA of three nodes or more that accepts ab, and has no edge for a step of ba
C14_Witness ==
    /\ DfaBuilt
    /\ Len(dfa_build.dfa.nodes) >= 3
    /\ DfaAccepts(dfa_build.dfa, dfa_build.start_index, <<97, 98>>)
    /\ DfaReach(dfa_build.dfa, {dfa_build.start_index}, <<98, 97>>) = {}
    /\ ~NfaAccepts(nfa, handle, <<98, 97>>)

(***************************************************************************)
(* C15: in the graph build_dfa builds and returns, every node has at most  *)
(* one outgoing edge labelled c for each character c, also when the        *)
(* alphabet vector lists a character more than once.                       *)
(***************************************************************************)
DfaExists == pc \in {"build_dfa_loop", "built", "next_line", "check_line_matches",
                     "line_checked", "done"}

HasDuplicate(seq) == \E j, k \in 1..Len(seq) : j # k /\ seq[j] = seq[k]

AtMostOneEdgePerLabel(g) ==
    \A n \in 0..(Len(g.nodes) - 1) :
        \A e1, e2 \in EdgesFrom(g, n) :
            get_edge_data(g, e1) = get_edge_data(g, e2) => e1 = e2

C15_DfaIsDeterministic == DfaExists => AtMostOneEdgePerLabel(dfa_build.dfa)

\* build_dfa has returned for an alphabet vector that lists a character twice,
\* and a node of the DFA has two edges
C15_Witness ==
    /\ DfaBuilt
    /\ HasDuplicate(alphabet)
    /\ \E n \in 0..(Len(dfa_build.dfa.nodes) - 1) :
          Cardinality(EdgesFrom(dfa_build.dfa, n)) >= 2

(***************************************************************************)
(* C16: every node of the DFA stands for a non-empty set of NFA nodes: the *)
(* empty closure of the NFA start, or a non-empty closure of a move; for   *)
(* an empty set neither a node nor an edge is added.                       *)
(***************************************************************************)
\* the sets of NFA nodes that final_dfa_states maps to DFA node n
StatesOf(d, n) == {Q \in DOMAIN d.final_dfa_states : d.final_dfa_states[Q] = n}

C16_DfaNodesAreNonEmptySets ==
    DfaExists =>
        /\ \A n \in 0..(Len(dfa_build.dfa.nodes) - 1) :
              /\ Cardinality(StatesOf(dfa_build, n)) = 1
              /\ {} \notin StatesOf(dfa_build, n)
        /\ \A Q \in DOMAIN dfa_build.final_dfa_states :
              dfa_build.final_dfa_states[Q] \in 0..(Len(dfa_build.dfa.nodes) - 1)
        /\ \A e \in Range(dfa_build.dfa.edges) :
              {} \notin StatesOf(dfa_build, e.target)

\* build_dfa has returned, and for a node and a character the closure of the
\* move is empty: the node has no edge for that character
C16_Witness ==
    /\ DfaBuilt
    /\ Len(dfa_build.dfa.nodes) >= 2
    /\ \E Q \in DOMAIN dfa_build.final_dfa_states : \E c \in Range(alphabet) :
          /\ empty_closure(nfa, delta(nfa, Q, c)) = {}
          /\ \A e \in EdgesFrom(dfa_build.dfa, dfa_build.final_dfa_states[Q]) :
                get_edge_data(dfa_build.dfa, e) # c

(***************************************************************************)
(* C17: check_line_matches never fails, whatever the line: every suffix it *)
(* takes starts at a character and every index it uses is in range; it     *)
(* finishes with a boolean.                                                *)
(***************************************************************************)
\* the turn of the loop that is about to run does not panic
C17_ScannerNeverFails ==
    pc = "check_line_matches"
        => check_line_step(dfa_build.start_index, dfa_build.dfa,
                           line, ignore_case, offset).ok

IsAscii(text) == \A k \in 1..Len(text) : text[k] < 128

\* on a line of one-byte characters the scanner does not fail
C17_NeverFailsOnAscii ==
    pc = "check_line_matches" /\ IsAscii(line)
        => check_line_step(dfa_build.start_index, dfa_build.dfa,
                           line, ignore_case, offset).ok

(***************************************************************************)
(* C18: after any sequence of add_node and add_edge calls,                 *)
(* outgoing_edges(n) returns exactly the edges added with source n, each   *)
(* once, the most recently added first, and traverse(e) returns the target *)
(* given when e was added.                                                 *)
(***************************************************************************)
RECURSIVE AddedFrom(_, _, _)
\* the indices of the first k add_edge calls with source n, the latest first
AddedFrom(log, n, k) ==
    IF k = 0 THEN <<>>
    ELSE (IF log[k][1] = n THEN <<k - 1>> ELSE <<>>) \o AddedFrom(log, n, k - 1)

Answered(method) == answer # None /\ answer[1].method = method

C18_EdgesMostRecentFirst ==
    /\ Answered("outgoing_edges") /\ answer[1].index < Len(graph.nodes)
          => answer[1].returned = Ok(AddedFrom(added, answer[1].index, Len(added)))
    /\ Answered("traverse") /\ answer[1].index < Len(graph.edges)
          => answer[1].returned = Ok(added[answer[1].index + 1][2])

\* a node whose edges were added first and third, another node's in between
C18_Witness ==
    /\ Answered("outgoing_edges")
    /\ answer[1].returned = Ok(<<2, 0>>)
    /\ added[2][1] # answer[1].index

\* traverse returns the target of an edge that leads back to its source
C18_WitnessTraverse ==
    /\ Answered("traverse")
    /\ answer[1].returned.ok
    /\ added[answer[1].index + 1] = <<1, 1>>

(***************************************************************************)
(* C19: on every graph, one without nodes or edges included,               *)
(* outgoing_edges(src) with src >= the number of nodes returns an          *)
(* invalid-node-index error value and traverse(e) with e >= the number of  *)
(* edges an invalid-edge-index error value; the graph is unchanged and     *)
(* neither call aborts.                                                    *)
(***************************************************************************)
IsErrorValue(returned, msg) ==
    ~returned.ok /\ ~IsPanic(returned) /\ returned.err.msg = msg

\* stated on the call as it is made: the step that sets answer
C19_OutOfRangeIsAnErrorValue ==
    [][/\ Answered("outgoing_edges")' /\ answer[1].index' >= Len(graph.nodes)
             => /\ IsErrorValue(answer[1].returned, "Error - Invalid source node index")'
                /\ graph' = graph
                /\ pc' # "panicked"
       /\ Answered("traverse")' /\ answer[1].index' >= Len(graph.edges)
             => /\ IsErrorValue(answer[1].returned, "Error - Invalid edge index")'
                /\ graph' = graph
                /\ pc' # "panicked"]_vars

\* the same on a graph that has a node, for outgoing_edges, and an edge, for traverse
C19_OnNonEmptyVectors ==
    /\ (Answered("outgoing_edges") /\ answer[1].index >= Len(graph.nodes)
            /\ Len(graph.nodes) > 0)
          => IsErrorValue(answer[1].returned, "Error - Invalid source node index")
    /\ (Answered("traverse") /\ answer[1].index >= Len(graph.edges)
            /\ Len(graph.edges) > 0)
          => IsErrorValue(answer[1].returned, "Error - Invalid edge index")

\* without nodes, or without edges, the call aborts
C19_AbortsOnEmptyVectors ==
    /\ Answered("outgoing_edges") /\ Len(graph.nodes) = 0 => IsPanic(answer[1].returned)
    /\ Answered("traverse") /\ Len(graph.edges) = 0 => IsPanic(answer[1].returned)

(***************************************************************************)
(* C20: build_dfa terminates for every NFA built by build_nfa, empty       *)
(* cycles included: each set of NFA nodes is put on the worklist at most   *)
(* once, the worklist drains, the DFA has at most 2^|N| - 1 nodes for an   *)
(* NFA of |N| nodes, and empty_closure pushes each NFA node on its visit   *)
(* stack at most once.                                                     *)
(***************************************************************************)
\* a set is put on the worklist when its DFA node is added, and only then:
\* no two nodes stand for the same set, and what waits has its node
EachSetQueuedOnce(d) ==
    /\ Cardinality(DOMAIN d.final_dfa_states) = Len(d.dfa.nodes)
    /\ \A j, k \in 1..Len(d.worklist) : d.worklist[j][1] = d.worklist[k][1] => j = k
    /\ \A k \in 1..Len(d.worklist) :
          /\ d.worklist[k][1] \in DOMAIN d.final_dfa_states
          /\ d.final_dfa_states[d.worklist[k][1]] = d.worklist[k][2]

\* the closures the next turn of the while loop of build_dfa computes
NextClosureRuns ==
    IF dfa_build.worklist = <<>> THEN {}
    ELSE {empty_closure_run(nfa, delta(nfa, Head(dfa_build.worklist)[1], c)) :
             c \in Range(alphabet)}

DfaBuildIsBounded ==
    /\ pc = "build_dfa"
          => ~HasDuplicate(empty_closure_run(nfa, {handle.start_state}).pushed)
    /\ pc = "build_dfa_loop"
          => /\ EachSetQueuedOnce(dfa_build)
             /\ Len(dfa_build.dfa.nodes) <= 2 ^ Len(nfa.nodes) - 1
             /\ \A run \in NextClosureRuns : ~HasDuplicate(run.pushed)

C20_BuildDfaTerminates ==
    /\ []DfaBuildIsBounded
    /\ (pc = "build_dfa") ~> (pc = "built")

\* build_dfa has returned for an NFA with an empty cycle inside another, and
\* its DFA has two nodes or more
C20_Witness ==
    /\ DfaBuilt
    /\ result[1].ok
    /\ \E k \in 2..Len(result[1].val) :
          result[1].val[k] \in {Star, Plus} /\ result[1].val[k - 1] \in {Star, Plus}
    /\ Len(dfa_build.dfa.nodes) >= 2

(***************************************************************************)
(* C21: empty_closure(S) is exactly the set of nodes reached from a member *)
(* of S along zero or more empty transitions: it contains S and follows no *)
(* edge labelled with a character; and it is idempotent.                   *)
(***************************************************************************)
NodesOf(g) == 0..(Len(g.nodes) - 1)

\* the sets of at most two nodes
SmallSetsOf(g) == {{}} \cup {{m, n} : m, n \in NodesOf(g)}

C21_EmptyClosureIsReachability ==
    pc = "build_dfa" =>
        \A S \in SmallSetsOf(nfa) :
            /\ empty_closure(nfa, S) = EpsilonReach(nfa, S)
            /\ S \subseteq empty_closure(nfa, S)
            /\ empty_closure(nfa, empty_closure(nfa, S)) = empty_closure(nfa, S)

\* an NFA with a node whose closure has three nodes or more and leaves out a
\* node that an edge labelled with a character leads to from it
C21_Witness ==
    /\ pc = "build_dfa"
    /\ \E n \in NodesOf(nfa) :
          /\ Cardinality(empty_closure(nfa, {n})) >= 3
          /\ \E c \in {97, 98} :
                \E t \in Targets(nfa, empty_closure(nfa, {n}), Some(c)) :
                    t \notin empty_closure(nfa, {n})

(***************************************************************************)
(* C22: in the NFA build_nfa returns for a well-formed postfix queue,      *)
(* every node that is not accepting has at least one outgoing edge.        *)
(***************************************************************************)
C22_NonAcceptingNodesHaveEdges ==
    pc = "build_dfa" /\ EvalPostfix(result[1].val).ok
        => \A n \in NodesOf(nfa) :
              ~is_accepting(get_node_data(nfa, n)) => EdgesFrom(nfa, n) # {}

\* the NFA of a concatenation inside an alternation: the accepting node has
\* no edge, every other node has one
C22_Witness ==
    /\ pc = "build_dfa"
    /\ Concat \in Range(result[1].val)
    /\ Alternation \in Range(result[1].val)
    /\ EdgesFrom(nfa, handle.accept_state) = {}
    /\ \A n \in NodesOf(nfa) \ {handle.accept_state} : EdgesFrom(nfa, n) # {}


(***************************************************************************)
(* C23: for one suffix run_automata starts at the DFA start, follows one   *)
(* matching edge per character, stops at the first character without a     *)
(* matching edge or at the end of the suffix, and returns the accepting    *)
(* flag of the node it stopped in; check_line_matches tries the offsets    *)
(* 0, 1, ... in increasing order, returns true at the first suffix         *)
(* run_automata accepts and false when no suffix is accepted.              *)
(***************************************************************************)
RECURSIVE Stops(_, _, _, _)
\* the nodes a run from n over s can stop in when it follows one matching
\* edge per character and stops where there is none
Stops(g, n, s, fold) ==
    IF s = <<>> THEN {n}
    ELSE LET matching == {e \in EdgesFrom(g, n) :
                              label_matches(g.edges[e + 1].data, Head(s), fold)}
         IN IF matching = {} THEN {n}
            ELSE UNION {Stops(g, g.edges[e + 1].target, Tail(s), fold) : e \in matching}

\* the offsets of the line at which a suffix starts and run_automata accepts it
AcceptedOffsets(text) ==
    {i \in 0..(str_len(text) - 1) :
        /\ is_char_boundary(text, i)
        /\ run_automata(dfa_build.start_index, dfa_build.dfa,
                        slice_from(text, i), ignore_case)}

\* the run over every suffix stops in a node of Stops and returns its flag
RunStopsWhereNoEdgeMatches(text) ==
    \A i \in 0..(str_len(text) - 1) :
        is_char_boundary(text, i) =>
            LET stop == run_automata_chars(dfa_build.dfa, dfa_build.start_index,
                                           slice_from(text, i), ignore_case)
            IN /\ stop \in Stops(dfa_build.dfa, dfa_build.start_index,
                                 slice_from(text, i), ignore_case)
               /\ run_automata(dfa_build.start_index, dfa_build.dfa,
                               slice_from(text, i), ignore_case)
                      = is_accepting(get_node_data(dfa_build.dfa, stop))

\* C23: when the scan of a line starts, check_line_matches returns a boolean,
\* true exactly when run_automata accepts the suffix at some offset
C23_FirstAcceptedSuffixDecides ==
    pc = "check_line_matches" /\ offset = 0
        => LET returned == check_line_matches(dfa_build.start_index, dfa_build.dfa,
                                              line, ignore_case)
           IN /\ RunStopsWhereNoEdgeMatches(line)
              /\ returned.ok
              /\ returned.val = (AcceptedOffsets(line) # {})

\* what holds of the scans that return: the loop stands at the least accepted
\* offset when it returns true, and no offset is accepted when it returns false
C23_OnScansThatReturn ==
    pc = "line_checked"
        => /\ RunStopsWhereNoEdgeMatches(line)
           /\ matched[1] = (AcceptedOffsets(line) # {})
           /\ matched[1] => /\ offset \in AcceptedOffsets(line)
                            /\ \A i \in AcceptedOffsets(line) : offset <= i

\* a scan aborts on a line that has an accepted suffix further on
C23_AbortsBeforeAcceptedSuffix ==
    pc = "panicked" /\ line # None /\ AcceptedOffsets(line) # {}


(***************************************************************************)
(* C24: when a pattern passes the check of its first and last character    *)
(* and holds an illegal adjacent pair, the error names the leftmost such   *)
(* pair and the 0-based index in the raw pattern of its first character.   *)
(***************************************************************************)
\* the 1-based places of the raw pairs binary-then-operator and unary-then-unary
IllegalPairsAt(p) ==
    {i \in 1..(Len(p) - 1) :
        \/ p[i] = Pipe /\ p[i + 1] \in OperatorChars
        \/ p[i] \in UnaryChars /\ p[i + 1] \in UnaryChars}

C24_LeftmostIllegalPairReported ==
    Returned_transform /\ check_start_and_end_chars(regex).ok /\ IllegalPairsAt(regex) # {}
        => LET k == CHOOSE i \in IllegalPairsAt(regex) :
                        \A j \in IllegalPairsAt(regex) : i <= j
           IN result[1] = Err("Error - Illegal operator sequence",
                              <<regex[k], regex[k + 1], k - 1>>)

\* two illegal pairs, and the one reported is not the one that ends the pattern
C24_Witness ==
    /\ Returned_transform
    /\ Cardinality(IllegalPairsAt(regex)) >= 2
    /\ ~result[1].ok
    /\ result[1].err.msg = "Error - Illegal operator sequence"
    /\ result[1].err.args[3] >= 2
    /\ result[1].err.args[3] + 2 < Len(regex)


(***************************************************************************)
(* C25: add_node returns the number of nodes there were and the new node   *)
(* has no outgoing edges; add_edge gives the new edge the index equal to   *)
(* the number of edges there were, changes only the outgoing list of its   *)
(* source, and leaves every other outgoing list, every existing edge's     *)
(* target and payload and every node payload as they were; no index is     *)
(* reused or removed.                                                      *)
(***************************************************************************)
\* the step appended one node
NodeAdded == Len(graph'.nodes) > Len(graph.nodes)
\* the step appended one edge
EdgeAdded == Len(graph'.edges) > Len(graph.edges)

\* what every step keeps: the nodes and edges there were, with their payloads
\* and the edges' targets
IndicesKept ==
    /\ Len(graph'.nodes) >= Len(graph.nodes)
    /\ Len(graph'.edges) >= Len(graph.edges)
    /\ \A n \in 1..Len(graph.nodes) : graph'.nodes[n].data = graph.nodes[n].data
    /\ \A e \in 1..Len(graph.edges) :
          /\ graph'.edges[e].target = graph.edges[e].target
          /\ graph'.edges[e].data = graph.edges[e].data

AddNodeFrame ==
    NodeAdded =>
        /\ Len(graph'.nodes) = Len(graph.nodes) + 1
        /\ \E data \in Payloads :
              /\ add_node(graph, data).index = Len(graph.nodes)
              /\ add_node(graph, data).graph = graph'
              /\ Last(graph'.nodes).data = data
        /\ outgoing_edges(graph', Len(graph.nodes)) = Ok(<<>>)
        /\ graph'.edges = graph.edges
        /\ \A n \in NodesOf(graph) :
              edge_chain(graph', graph'.nodes[n + 1].first_outgoing_edge)
                  = edge_chain(graph, graph.nodes[n + 1].first_outgoing_edge)

AddEdgeFrame ==
    EdgeAdded =>
        /\ Len(graph'.edges) = Len(graph.edges) + 1
        /\ Len(graph'.nodes) = Len(graph.nodes)
        /\ added' = Append(added, Last(added'))
        /\ LET source == Last(added')[1]
               target == Last(added')[2]
           IN /\ Last(graph'.edges).target = target
              /\ Last(graph'.edges).data \in Payloads
              /\ edge_chain(graph', graph'.nodes[source + 1].first_outgoing_edge)
                    = <<Len(graph.edges)>>
                          \o edge_chain(graph, graph.nodes[source + 1].first_outgoing_edge)
              /\ \A n \in NodesOf(graph) \ {source} :
                    edge_chain(graph', graph'.nodes[n + 1].first_outgoing_edge)
                        = edge_chain(graph, graph.nodes[n + 1].first_outgoing_edge)

C25_AddNodeAndAddEdgeFrame ==
    [][IndicesKept /\ AddNodeFrame /\ AddEdgeFrame]_vars

\* an edge was added to a node that had one, a node is left without edges,
\* another node has an edge too, and the payloads differ
C25_Witness ==
    /\ pc = "graph"
    /\ Len(graph.edges) = 3
    /\ added[1][1] = added[3][1]
    /\ added[2][1] # added[1][1]
    /\ graph.edges[1].data # graph.edges[3].data
    /\ \E m, n \in NodesOf(graph) : graph.nodes[m + 1].data # graph.nodes[n + 1].data
    /\ Last(graph.nodes).first_outgoing_edge = None


(***************************************************************************)
(* C26: every DFA node build_dfa creates, the start node included, is      *)
(* accepting if and only if the set of NFA nodes it stands for contains    *)
(* the NFA accepting node, and the flag of a node never changes once the   *)
(* node exists.                                                            *)
(***************************************************************************)
AcceptingIffHoldsAcceptNode ==
    DfaExists =>
        \A n \in NodesOf(dfa_build.dfa) :
            /\ StatesOf(dfa_build, n) # {}
            /\ \A Q \in StatesOf(dfa_build, n) :
                  is_accepting(get_node_data(dfa_build.dfa, n))
                      <=> handle.accept_state \in Q

FlagsKept ==
    DfaExists /\ DfaExists' =>
        \A n \in NodesOf(dfa_build.dfa) :
            get_node_data(dfa_build'.dfa, n) = get_node_data(dfa_build.dfa, n)

C26_AcceptingIffHoldsAcceptNode ==
    []AcceptingIffHoldsAcceptNode /\ [][FlagsKept]_vars

\* build_dfa has returned a DFA whose start node is accepting, with a node
\* that is not and another one that is
C26_Witness ==
    /\ DfaBuilt
    /\ is_accepting(get_node_data(dfa_build.dfa, dfa_build.start_index))
    /\ \E m, n \in NodesOf(dfa_build.dfa) \ {dfa_build.start_index} :
          /\ is_accepting(get_node_data(dfa_build.dfa, m))
          /\ ~is_accepting(get_node_data(dfa_build.dfa, n))


(***************************************************************************)
(* C27: scanning is read-only on the DFA: check_line_matches changes no    *)
(* node, edge, payload or accepting flag, so when the scans of several     *)
(* lines against one DFA are interleaved in any order, each scan returns   *)
(* what it returns when it runs alone.                                     *)
(***************************************************************************)
\* a scan that has returned returned what check_line_matches returns alone
ScansReturnAsAlone ==
    pc = "scans" =>
        \A k \in 1..Len(scans) :
            scans[k].returned # None =>
                scans[k].returned[1]
                    = check_line_matches(dfa_build.start_index, dfa_build.dfa,
                                         scans[k].line, ignore_case)

\* a step of a scan changes neither automaton
ScanReadsOnly ==
    pc \in {"scans", "next_line", "check_line_matches", "line_checked"}
        => dfa_build' = dfa_build /\ nfa' = nfa /\ handle' = handle

C27_ScansDoNotInterfere == []ScansReturnAsAlone /\ [][ScanReadsOnly]_vars

\* the second scan has returned true while the first, which a turn of its
\* loop has rejected at offset 0, has not returned yet
C27_Witness ==
    /\ pc = "scans"
    /\ Len(scans) >= 2
    /\ scans[1].returned = None
    /\ scans[1].offset >= 1
    /\ scans[2].returned = Some(Ok(TRUE))
    /\ scans[1].line # scans[2].line


(***************************************************************************)
(* C28: search never returns an empty line, whatever the pattern and the   *)
(* ignore_case flag, also when the pattern matches the empty string (a*,   *)
(* a?): on a line of length 0 check_line_matches tries no offset and       *)
(* returns false.                                                          *)
(***************************************************************************)
C28_EmptyLineNeverReturned ==
    /\ pc = "line_checked" /\ line = <<>> => matched = Some(FALSE) /\ offset = 0
    /\ pc \in {"next_line", "check_line_matches", "line_checked", "done"}
          => <<>> \notin Range(results)

\* search has returned for a pattern that matches the empty string and
\* contents with an empty line and a line that is returned
C28_Witness ==
    /\ pc = "done"
    /\ <<>> \in Range(lines(contents))
    /\ results # <<>>
    /\ EvalPostfix(result[1].val).ok
    /\ Matches(EvalPostfix(result[1].val).tree, <<>>)
    /\ run_automata(dfa_build.start_index, dfa_build.dfa, <<>>, ignore_case)


(***************************************************************************)
(* C29: for every pattern transform accepts, the Char symbols of the       *)
(* postfix queue, read in order, are the literal characters of the pattern *)
(* after escape translation, in their order and number; the queue holds    *)
(* each unescaped unary operator and each unescaped | once, and one Concat *)
(* per Concat format inserted; convert drops only parentheses and adds     *)
(* nothing.                                                                *)
(***************************************************************************)
RECURSIVE Literals(_, _, _)
\* the literal characters of the raw pattern from position i on; an escaped
\* character is translated as documented, or as get_escaped translates it
Literals(p, i, documented) ==
    IF i > Len(p) THEN <<>>
    ELSE IF IsEscapedAt(p, i)
    THEN <<IF documented THEN C6_Expected(p[i]) ELSE get_escaped(p[i]).val.c>>
             \o Literals(p, i + 1, documented)
    ELSE IF p[i] = Backslash \/ p[i] \in MetaChars
    THEN Literals(p, i + 1, documented)
    ELSE <<p[i]>> \o Literals(p, i + 1, documented)

RECURSIVE CharsOf(_)
\* the characters of the Char symbols of a queue, in order
CharsOf(q) ==
    IF q = <<>> THEN <<>>
    ELSE (IF Head(q).t = "Char" THEN <<Head(q).c>> ELSE <<>>) \o CharsOf(Tail(q))

Count(q, symbol) == Cardinality({k \in 1..Len(q) : q[k] = symbol})
UnescapedCount(p, c) == Cardinality({i \in 1..Len(p) : IsUnescaped(p, i, c)})

\* the operators of the pattern and of the token stream are in the queue,
\* each once, and nothing else but the Char symbols
OperatorsKept(p, toks, q) ==
    /\ Count(q, Optional) = UnescapedCount(p, QuestionMark)
    /\ Count(q, Plus) = UnescapedCount(p, PlusSign)
    /\ Count(q, Star) = UnescapedCount(p, Asterisk)
    /\ Count(q, Alternation) = UnescapedCount(p, Pipe)
    /\ Count(q, Concat) = Count(toks, Concat)
    /\ Count(q, Open) = 0 /\ Count(q, Close) = 0
    /\ Len(q) = Len(toks) - Count(toks, Open) - Count(toks, Close)
    /\ Len(CharsOf(q)) = Len(CharsOf(toks))

C29_QueueKeepsLiteralsAndOperators ==
    Returned_transform /\ result[1].ok
        => /\ CharsOf(result[1].val) = Literals(regex, 1, TRUE)
           /\ OperatorsKept(regex, formatted, result[1].val)

\* the same with each escape translated as get_escaped translates it
C29_WithEscapesAsTranslated ==
    Returned_transform /\ result[1].ok
        => /\ CharsOf(result[1].val) = Literals(regex, 1, FALSE)
           /\ OperatorsKept(regex, formatted, result[1].val)

\* a queue whose order differs from the token stream's, with an escaped
\* metacharacter among its literals
C29_ReorderedWithEscape ==
    /\ Returned_transform
    /\ result[1].ok
    /\ result[1].val # <<>>
    /\ Last(result[1].val) = Alternation
    /\ \E i \in 1..Len(regex) : IsEscapedAt(regex, i) /\ regex[i] \in MetaChars


(***************************************************************************)
(* C30: at every step of build_dfa the map final_dfa_states from sets of   *)
(* NFA nodes to DFA node indices is injective and covers every DFA node,   *)
(* so no two DFA nodes stand for the same set; in the finished DFA every   *)
(* node is reachable from the start node along DFA edges.                  *)
(***************************************************************************)
\* the map of d is one-to-one onto the nodes of its graph
OneToOneOntoNodes(d) ==
    /\ \A Q1, Q2 \in DOMAIN d.final_dfa_states :
          d.final_dfa_states[Q1] = d.final_dfa_states[Q2] => Q1 = Q2
    /\ {d.final_dfa_states[Q] : Q \in DOMAIN d.final_dfa_states} = NodesOf(d.dfa)

RECURSIVE ReachableFrom(_, _)
\* the nodes reached from S along edges of any label
ReachableFrom(g, S) ==
    LET T == S \cup {g.edges[e + 1].target : e \in UNION {EdgesFrom(g, n) : n \in S}}
    IN IF T = S THEN S ELSE ReachableFrom(g, T)

\* the states of build_dfa inside the turn of the while loop that is about
\* to run: after each character of the alphabet
InsideTurn ==
    IF pc = "build_dfa_loop" /\ dfa_build.worklist # <<>>
    THEN {build_dfa_chars(handle, nfa, [dfa_build EXCEPT !.worklist = Tail(@)],
                          Head(dfa_build.worklist)[1], Head(dfa_build.worklist)[2],
                          SubSeq(alphabet, 1, k)) : k \in 0..Len(alphabet)}
    ELSE {}

C30_MapIsOneToOneAndNodesReachable ==
    DfaExists =>
        /\ OneToOneOntoNodes(dfa_build)
        /\ \A d \in InsideTurn : OneToOneOntoNodes(d)
        /\ dfa_build.worklist = <<>>
              => ReachableFrom(dfa_build.dfa, {dfa_build.start_index})
                     = NodesOf(dfa_build.dfa)

\* a finished DFA of three nodes or more with a node that no edge from the
\* start node enters, and an edge whose target was already in the map
C30_Witness ==
    /\ DfaBuilt
    /\ Len(dfa_build.dfa.nodes) >= 3
    /\ \E n \in NodesOf(dfa_build.dfa) \ {dfa_build.start_index} :
          \A e \in EdgesFrom(dfa_build.dfa, dfa_build.start_index) :
              dfa_build.dfa.edges[e + 1].target # n
    /\ Len(dfa_build.dfa.edges) > Len(dfa_build.dfa.nodes) - 1


(***************************************************************************)
(* C31: at every step of build_nfa on a well-formed postfix queue, each    *)
(* fragment on the stack has an entry node that no edge enters and an exit *)
(* node that no edge leaves, the fragments on the stack share no node, and *)
(* every NFA node has at most two outgoing edges, a node with an outgoing  *)
(* edge labelled by a character having that edge only.                     *)
(***************************************************************************)
\* the nodes of a fragment: those reached from its entry node
FragmentNodes(g, fragment) == ReachableFrom(g, {fragment.start_state})

EntryAndExitAreFree(g, fragment) ==
    /\ \A e \in 1..Len(g.edges) : g.edges[e].target # fragment.start_state
    /\ EdgesFrom(g, fragment.accept_state) = {}
    /\ fragment.accept_state \in FragmentNodes(g, fragment)

FragmentsAreDisjoint(g, stack) ==
    \A j, k \in 1..Len(stack) :
        j # k => FragmentNodes(g, stack[j]) \cap FragmentNodes(g, stack[k]) = {}

AtMostTwoEdgesOut(g) ==
    \A n \in NodesOf(g) :
        /\ Cardinality(EdgesFrom(g, n)) <= 2
        /\ Len(edge_chain(g, g.nodes[n + 1].first_outgoing_edge))
              = Cardinality(EdgesFrom(g, n))
        /\ (\E e \in EdgesFrom(g, n) : get_edge_data(g, e) # None)
              => Cardinality(EdgesFrom(g, n)) = 1

C31_FragmentsAreThompsonFragments ==
    pc \in {"build_nfa", "build_dfa"} /\ EvalPostfix(result[1].val).ok
        => /\ \A k \in 1..Len(component_stack) :
                 EntryAndExitAreFree(nfa, component_stack[k])
           /\ FragmentsAreDisjoint(nfa, component_stack)
           /\ AtMostTwoEdgesOut(nfa)

\* in the middle of the loop: two fragments on the stack, the queue not used
\* up, a node with two outgoing edges and a node with a character edge
C31_Witness ==
    /\ pc = "build_nfa"
    /\ EvalPostfix(result[1].val).ok
    /\ Len(component_stack) >= 2
    /\ postfix_regex # <<>>
    /\ \E n \in NodesOf(nfa) : Cardinality(EdgesFrom(nfa, n)) = 2
    /\ \E n \in NodesOf(nfa) : \E e \in EdgesFrom(nfa, n) : get_edge_data(nfa, e) # None
    /\ \E k \in 1..Len(component_stack) :
          Cardinality(FragmentNodes(nfa, component_stack[k])) >= 4

====
